---------------------------- MODULE Spec2Model ----------------------------
(***************************************************************************)
(* A model of the core of THE-GAP-OF-EGO: the learning layer               *)
(* (LearningLayer: experience buffer, value function, bias adaptation),    *)
(* the superposition engine (createSuperposition, normalize,               *)
(* bornProbabilities, collapse) and the Maxwell demon (demonSelect).       *)
(*                                                                         *)
(* Numbers.  The program computes with IEEE doubles.  Here a number is an  *)
(* integer count of 1/SCALE units (fixed point, three decimal digits),     *)
(* every product and quotient is rounded to the nearest unit, and the one  *)
(* value NaN is kept apart: it propagates through the arithmetic and makes *)
(* every comparison false, as it does in the program.  Finite precision is *)
(* therefore part of the model: a list of quotients need not add up to     *)
(* exactly one.                                                            *)
(***************************************************************************)
EXTENDS Integers, Sequences, FiniteSets, TLC

\* ------------------------------------------------------------------------
\* Numbers
\* ------------------------------------------------------------------------

\* One unit of the fixed-point representation: the number 1.0.
SCALE == 1000

\* The IEEE value NaN (a code outside the range of every finite value).
NaN == -2000000000

isNaN(x) == x = NaN

Abs(n) == IF n < 0 THEN -n ELSE n

\* n / d for d > 0, rounded to the nearest integer (ties away from zero).
RoundDiv(n, d) ==
  IF n >= 0 THEN (n + d \div 2) \div d
            ELSE -(((-n) + d \div 2) \div d)

FAdd(a, b) == IF isNaN(a) \/ isNaN(b) THEN NaN ELSE a + b

FSub(a, b) == IF isNaN(a) \/ isNaN(b) THEN NaN ELSE a - b

FMul(a, b) == IF isNaN(a) \/ isNaN(b) THEN NaN ELSE RoundDiv(a * b, SCALE)

\* a / b: 0/0 is NaN.  (x/0 for x # 0 is Infinity in the program; no input
\* of this model reaches it, and TLC stops with an error if one does.)
FDiv(a, b) ==
  IF isNaN(a) \/ isNaN(b) THEN NaN
  ELSE IF b = 0 /\ a = 0 THEN NaN
  ELSE IF b > 0 THEN RoundDiv(a * SCALE, b)
  ELSE RoundDiv((-a) * SCALE, -b)

\* a / n for a positive count n (an array length, an update count).
FDivInt(a, n) == IF isNaN(a) THEN NaN ELSE RoundDiv(a, n)

FNeg(a) == IF isNaN(a) THEN NaN ELSE -a

FAbs(a) == IF isNaN(a) THEN NaN ELSE Abs(a)

\* The comparisons of the program: false as soon as an operand is NaN.
Lt(a, b) == ~isNaN(a) /\ ~isNaN(b) /\ a < b

Gt(a, b) == ~isNaN(a) /\ ~isNaN(b) /\ a > b

Ge(a, b) == ~isNaN(a) /\ ~isNaN(b) /\ a >= b

\* Math.max and Math.min: NaN if an argument is NaN.
MathMax(a, b) == IF isNaN(a) \/ isNaN(b) THEN NaN ELSE IF a > b THEN a ELSE b

MathMin(a, b) == IF isNaN(a) \/ isNaN(b) THEN NaN ELSE IF a < b THEN a ELSE b

\* Largest r with r * r <= n, by bisection on [lo, hi].
RECURSIVE ISqrtIn(_, _, _)
ISqrtIn(n, lo, hi) ==
  IF lo >= hi THEN lo
  ELSE LET mid == (lo + hi + 1) \div 2
       IN IF mid * mid <= n THEN ISqrtIn(n, mid, hi) ELSE ISqrtIn(n, lo, mid - 1)

\* The integer nearest to the square root of n >= 0.
ISqrt(n) ==
  LET r == ISqrtIn(n, 0, 46340)
  IN IF n - r * r > r THEN r + 1 ELSE r

\* Math.sqrt on fixed-point numbers.
FSqrt(x) == IF isNaN(x) \/ x < 0 THEN NaN ELSE ISqrt(x * SCALE)

\* Taylor series of e^x for x >= 0: term k is term (k-1) * x / k.
RECURSIVE ExpSeries(_, _, _, _)
ExpSeries(x, k, term, acc) ==
  IF term = 0 \/ k > 40 THEN acc
  ELSE LET next == RoundDiv(term * x, k * SCALE)
       IN ExpSeries(x, k + 1, next, acc + next)

\* Math.exp on fixed-point numbers; e^(-x) is 1 / e^x, and it underflows to
\* 0 once it is below half a unit (x < -7.6).
FExp(x) ==
  IF isNaN(x) THEN NaN
  ELSE IF x >= 0 THEN ExpSeries(x, 1, SCALE, SCALE)
  ELSE IF 10 * x < -76 * SCALE THEN 0
  ELSE RoundDiv(SCALE * SCALE, ExpSeries(-x, 1, SCALE, SCALE))

\* ln 2 in fixed point.
LN2 == RoundDiv(693147 * SCALE, 1000000)

\* ln of p in [1/2, 2] as 2 atanh(z) = 2 (z + z^3/3 + z^5/5 + ...) with
\* z = (p - 1) / (p + 1), computed at ten times the resolution.
LnCore(p) ==
  LET z  == RoundDiv((p - SCALE) * SCALE * 10, p + SCALE)
      z2 == RoundDiv(z * z, SCALE * 10)
      ZS == SCALE * 10
      RECURSIVE Ser(_, _, _)
      Ser(k, pow, acc) ==
        IF pow = 0 \/ k > 25 THEN acc
        ELSE LET next == RoundDiv(pow * z2, ZS)
             IN Ser(k + 2, next, acc + RoundDiv(next, k + 2))
  IN RoundDiv(2 * Ser(1, z, z), 10)

\* Math.log for p > 0: halve or double p into [1/2, 1] and add k ln 2.
RECURSIVE FLn(_)
FLn(p) ==
  IF isNaN(p) \/ p < 0 THEN NaN
  ELSE IF p > SCALE THEN FLn(RoundDiv(p, 2)) + LN2
  ELSE IF 2 * p < SCALE THEN FLn(2 * p) - LN2
  ELSE LnCore(p)

\* ------------------------------------------------------------------------
\* Sequences
\* ------------------------------------------------------------------------

Min(a, b) == IF a < b THEN a ELSE b

Max(a, b) == IF a > b THEN a ELSE b

\* Array.prototype.slice(start): a negative start counts from the end.
Slice(s, start) ==
  LET from == IF start < 0 THEN Max(Len(s) + start, 0) ELSE Min(start, Len(s))
  IN SubSeq(s, from + 1, Len(s))

\* reduce((a, b) => a + b, 0) over a sequence of numbers, left to right.
RECURSIVE SumTo(_, _)
SumTo(s, n) == IF n = 0 THEN 0 ELSE FAdd(SumTo(s, n - 1), s[n])

Sum(s) == SumTo(s, Len(s))

\* ------------------------------------------------------------------------
\* Complex numbers and the balance primitive (mu-primitives.ts)
\* ------------------------------------------------------------------------

Complex(re, im) == [re |-> re, im |-> im]

\* Math.sqrt(re * re + im * im)
magnitude(z) ==
  IF isNaN(z.re) \/ isNaN(z.im) THEN NaN ELSE ISqrt(z.re * z.re + z.im * z.im)

sub(a, b) == Complex(FSub(a.re, b.re), FSub(a.im, b.im))

scale(z, k) == Complex(FMul(z.re, k), FMul(z.im, k))

distanceFrom(a, b) == magnitude(sub(a, b))

\* eta = 1 / sqrt(2)
ETA == ISqrt((SCALE * SCALE) \div 2)

\* mu = e^(i 3 pi / 4) = (-1 + i) / sqrt(2)
MU == Complex(-ETA, ETA)

\* A wrong projection: the unit vector of the ray whatever the amplitude.
projectToBalanceRay_unit(z) == scale(MU, SCALE)

projectToBalanceRay(z) ==
  LET dotProduct == FAdd(FMul(z.re, MU.re), FMul(z.im, MU.im))
  IN scale(MU, dotProduct)

\* Complex.isBalanced: | |re| - |im| | < 1e-10, which at this resolution is
\* |re| = |im|.
isBalanced(z) == ~isNaN(z.re) /\ ~isNaN(z.im) /\ Abs(z.re) = Abs(z.im)

isOnBalanceRay(z) == isBalanced(z)

\* pi / 4 and pi in fixed point (pi is kept a multiple of pi / 4, so that the
\* eight basis directions have exact angles).
QUARTER_PI == RoundDiv(785398 * SCALE, 1000000)

PI == 4 * QUARTER_PI

\* t - t^3/3 + t^5/5 - ... for 0 <= t <= 0.42.
RECURSIVE AtanSeries(_, _, _, _)
AtanSeries(t2, k, power, acc) ==
  IF power = 0 \/ k > 21 THEN acc
  ELSE AtanSeries(t2, k + 2, -FMul(power, t2), acc + RoundDiv(-FMul(power, t2), k + 2))

\* atan(t) for 0 < t < 1, through atan(t) = 2 atan(h) with
\* h = t / (1 + sqrt(1 + t^2)).
Atan(t) ==
  LET h == FDiv(t, SCALE + FSqrt(SCALE + FMul(t, t)))
  IN 2 * AtanSeries(FMul(h, h), 1, h, h)

\* The angle in [0, pi/4] of the direction with components lo <= hi.
OctantAngle(lo, hi) ==
  IF lo = 0 THEN 0
  ELSE IF lo = hi THEN QUARTER_PI
  ELSE Atan(FDiv(lo, hi))

\* atan2 of the first quadrant (x, y >= 0, not both 0).
QuadrantAngle(x, y) ==
  IF y <= x THEN OctantAngle(y, x) ELSE 2 * QUARTER_PI - OctantAngle(x, y)

\* Math.atan2(y, x); atan2(0, 0) = 0.
Atan2(y, x) ==
  IF isNaN(x) \/ isNaN(y) THEN NaN
  ELSE IF x = 0 /\ y = 0 THEN 0
  ELSE IF x >= 0 /\ y >= 0 THEN QuadrantAngle(x, y)
  ELSE IF x < 0 /\ y >= 0 THEN PI - QuadrantAngle(-x, y)
  ELSE IF x < 0 THEN -(PI - QuadrantAngle(-x, -y))
  ELSE -QuadrantAngle(x, -y)

\* Complex.argument
argument(z) == Atan2(z.im, z.re)

\* cos at the multiples k pi / 4.
CosOctant(k) ==
  IF k = 0 THEN SCALE
  ELSE IF k = 1 \/ k = 7 THEN ETA
  ELSE IF k = 2 \/ k = 6 THEN 0
  ELSE IF k = 4 THEN -SCALE
  ELSE -ETA

\* 1 - x^2/2! + x^4/4! - ... for 0 <= x <= pi/2.
RECURSIVE CosSeries(_, _, _, _)
CosSeries(x, k, term, acc) ==
  IF term = 0 \/ k > 20 THEN acc
  ELSE CosSeries(x, k + 2,
         -RoundDiv(FMul(term, x) * x, (k + 1) * (k + 2) * SCALE),
         acc - RoundDiv(FMul(term, x) * x, (k + 1) * (k + 2) * SCALE))

\* cos of r in (-pi, pi].
CosReduced(r) ==
  IF 2 * Abs(r) <= PI THEN CosSeries(Abs(r), 0, SCALE, SCALE)
  ELSE -CosSeries(PI - Abs(r), 0, SCALE, SCALE)

\* Math.cos
FCos(theta) ==
  IF isNaN(theta) THEN NaN
  ELSE IF theta % QUARTER_PI = 0 THEN CosOctant((theta \div QUARTER_PI) % 8)
  ELSE CosReduced(((theta + PI) % (2 * PI)) - PI)

\* Math.sin
FSin(theta) == IF isNaN(theta) THEN NaN ELSE FCos(theta - 2 * QUARTER_PI)

\* Complex.fromPolar
fromPolar(r, theta) == Complex(FMul(r, FCos(theta)), FMul(r, FSin(theta)))

\* energy (thermodynamic layer): squared distance from the projection onto
\* the balance ray.
energy(state) ==
  FAdd(FMul(sub(state, projectToBalanceRay(state)).re,
            sub(state, projectToBalanceRay(state)).re),
       FMul(sub(state, projectToBalanceRay(state)).im,
            sub(state, projectToBalanceRay(state)).im))

\* ------------------------------------------------------------------------
\* Learning layer: constants
\* ------------------------------------------------------------------------

LEARNING_RATE == 100

EXPERIENCE_BUFFER_SIZE == 500

MIN_EXPERIENCES_FOR_LEARNING == 10

CREDIT_DECAY == 900

\* The bounds of the demon's bias in adaptBias: 0.1 and 2.0.
BIAS_MIN == 100

BIAS_MAX == 2000

\* The threshold of isMuAligned: 0.7.
MU_ALIGNED_THRESHOLD == 700

\* The length to which learn trims the prediction-error history.
PREDICTION_ERROR_LIMIT == 1000

\* The length to which adaptBias trims biasHistory.
BIAS_HISTORY_LIMIT == 100

\* The eight reasoning modalities (the keys of modalityWeights).
MODALITY_NAMES ==
  {"integrative", "neural", "analytical", "intuitive",
   "critical", "symbolic", "embodied", "creative"}

\* ------------------------------------------------------------------------
\* Learning layer: experiences, credit, value function, bias adaptation
\* ------------------------------------------------------------------------

\* createExperience; the id is the serial number of the recording (the
\* program draws it from the clock and a random string).
createExperience(id, attentionTarget, demonBias, selectionEntropy, cycleOutcome) ==
  LET valueGained ==
        FSub(FAdd(FAdd(FAdd(IF cycleOutcome.successful THEN 300 ELSE 0,
                            FMul(cycleOutcome.coherence, 200)),
                       FMul(cycleOutcome.muAlignment, 200)),
                  FMul(cycleOutcome.identityGrowth, 200)),
             FMul(cycleOutcome.entropyPaid, 100))
  IN [id                |-> id,
      attentionTarget   |-> attentionTarget,
      demonBias         |-> demonBias,
      selectionEntropy  |-> selectionEntropy,
      cycleSuccessful   |-> cycleOutcome.successful,
      coherenceAchieved |-> cycleOutcome.coherence,
      broadcastOccurred |-> cycleOutcome.broadcast,
      muAlignment       |-> cycleOutcome.muAlignment,
      identityGrowth    |-> cycleOutcome.identityGrowth,
      entropyPaid       |-> cycleOutcome.entropyPaid,
      valueGained       |-> valueGained,
      creditAssigned    |-> 0]

\* The loop of assignCredit, from index i down to 1: eligibility is the
\* trace of experience i, acc the assignments already made for i+1..N.
RECURSIVE assignCreditFrom(_, _, _, _, _, _)
assignCreditFrom(exps, finalValue, decayRate, i, eligibility, acc) ==
  IF i = 0 THEN acc
  ELSE assignCreditFrom(exps, finalValue, decayRate, i - 1,
         FMul(eligibility, decayRate),
         <<[experienceId     |-> exps[i].id,
            credit           |-> exps[i].valueGained,
            eligibilityTrace |-> eligibility,
            decayedCredit    |-> FMul(finalValue, eligibility)]>> \o acc)

\* A wrong assignment: the eligibility does not decay.
assignCredit_noDecay(exps, finalValue) ==
  assignCreditFrom(exps, finalValue, SCALE, Len(exps), SCALE, <<>>)

assignCredit(exps, finalValue) ==
  assignCreditFrom(exps, finalValue, CREDIT_DECAY, Len(exps), SCALE, <<>>)

\* creditMap.get(id) || previous: the mapped credit unless the id is not
\* in the map or the credit is falsy (0 or NaN).
creditFor(exp, assignments) ==
  LET hits == {j \in 1..Len(assignments) : assignments[j].experienceId = exp.id}
  IN IF hits = {} THEN exp.creditAssigned
     ELSE LET c == assignments[CHOOSE j \in hits : \A k \in hits : k <= j].decayedCredit
          IN IF c = 0 \/ isNaN(c) THEN exp.creditAssigned ELSE c

applyCredit(exps, assignments) ==
  [i \in 1..Len(exps) |->
     [exps[i] EXCEPT !.creditAssigned = creditFor(exps[i], assignments)]]

createValueFunction ==
  [saliencyWeight    |-> 300,
   relevanceWeight   |-> 300,
   modalityWeights   |-> [m \in MODALITY_NAMES |-> 500],
   muAlignmentWeight |-> 200,
   magnitudeWeight   |-> 100,
   bias              |-> 500,
   updateCount       |-> 0,
   averageError      |-> 0]

\* mu-alignment of a complex number: exp(-distance to its projection).
muAlignment(z) ==
  IF isNaN(z.re) \/ isNaN(z.im) THEN 500
  ELSE LET distance == distanceFrom(z, projectToBalanceRay(z))
       IN IF isNaN(distance) THEN 500 ELSE FExp(FNeg(distance))

clamp(x, min, max) ==
  IF isNaN(x) THEN (min + max) \div 2
  ELSE MathMax(min, MathMin(max, x))

\* The weighted combination of predictValue, given the category feature.
predictValueWith(target, valueFunc, modalityValue) ==
  LET muAlign       == muAlignment(target.content)
      mag           == MathMin(SCALE, magnitude(target.content))
      weightSum     == FAdd(FAdd(FAdd(FAdd(valueFunc.saliencyWeight,
                                           valueFunc.relevanceWeight),
                                      valueFunc.muAlignmentWeight),
                                 valueFunc.magnitudeWeight), 200)
      rawValue      == FAdd(FAdd(FAdd(FAdd(
                         FMul(valueFunc.saliencyWeight, target.saliency),
                         FMul(valueFunc.relevanceWeight, target.relevance)),
                         FMul(200, modalityValue)),
                         FMul(valueFunc.muAlignmentWeight, muAlign)),
                         FMul(valueFunc.magnitudeWeight, mag))
      normalizedValue == IF Gt(weightSum, 0) THEN FDiv(rawValue, weightSum) ELSE 500
      value         == FAdd(FMul(normalizedValue, 800), FMul(valueFunc.bias, 200))
  IN MathMax(0, MathMin(SCALE, value))

\* predictValue: the category feature is modalityWeights[modality] || 0.5,
\* the stored weight unless it is falsy (0 or NaN).
predictValue(target, valueFunc) ==
  LET w == valueFunc.modalityWeights[target.modality]
  IN predictValueWith(target, valueFunc, IF w = 0 \/ isNaN(w) THEN 500 ELSE w)

\* The PredictionError record for an expected and an actual value.
predictionErrorOf(experience, expectedValue, actualValue, error) ==
  [experienceId  |-> experience.id,
   expectedValue |-> expectedValue,
   actualValue   |-> actualValue,
   error         |-> error,
   absoluteError |-> FAbs(error)]

\* error = actualValue - expectedValue
predictionErrorFor(experience, expectedValue) ==
  predictionErrorOf(experience, expectedValue, experience.valueGained,
                    FSub(experience.valueGained, expectedValue))

computePredictionError(experience, valueFunc) ==
  predictionErrorFor(experience, predictValue(experience.attentionTarget, valueFunc))

updateValueFunction(valueFunc, experience, predictionError) ==
  LET target   == experience.attentionTarget
      error    == predictionError.error
      step     == FMul(LEARNING_RATE, error)
      muAlign  == muAlignment(target.content)
      mag      == MathMin(SCALE, magnitude(target.content))
      absError == IF isNaN(error) THEN 0 ELSE Abs(error)
      newAvgError ==
        IF isNaN(valueFunc.averageError) THEN NaN
        ELSE RoundDiv(valueFunc.averageError * valueFunc.updateCount + absError,
                      valueFunc.updateCount + 1)
  IN [saliencyWeight    |-> clamp(FAdd(valueFunc.saliencyWeight,
                                       FMul(step, target.saliency)), 0, SCALE),
      relevanceWeight   |-> clamp(FAdd(valueFunc.relevanceWeight,
                                       FMul(step, target.relevance)), 0, SCALE),
      modalityWeights   |->
        [valueFunc.modalityWeights EXCEPT ![target.modality] =
           MathMax(0, MathMin(SCALE, FAdd(@, FMul(step, 200))))],
      muAlignmentWeight |-> clamp(FAdd(valueFunc.muAlignmentWeight,
                                       FMul(step, muAlign)), 0, SCALE),
      magnitudeWeight   |-> clamp(FAdd(valueFunc.magnitudeWeight,
                                       FMul(step, mag)), 0, SCALE),
      bias              |-> clamp(FAdd(valueFunc.bias, FMul(step, 100)), 0, SCALE),
      updateCount       |-> valueFunc.updateCount + 1,
      averageError      |-> newAvgError]

createBiasAdaptation(initialBias) ==
  [currentBias      |-> initialBias,
   biasHistory      |-> <<initialBias>>,
   adaptationRate   |-> LEARNING_RATE,
   muSuccessRate    |-> 500,
   nonMuSuccessRate |-> 500,
   optimalBias      |-> initialBias]

isMuAligned(experience) == Gt(experience.muAlignment, MU_ALIGNED_THRESHOLD)

\* reduce((s, e) => s + e.valueGained, 0)
RECURSIVE SumValueTo(_, _)
SumValueTo(s, n) == IF n = 0 THEN 0 ELSE FAdd(SumValueTo(s, n - 1), s[n].valueGained)

\* A wrong threshold: learning starts one experience too early.
tooFewExperiences_early(exps) == Len(exps) < MIN_EXPERIENCES_FOR_LEARNING - 1

\* The guard of adaptBias and of learn: too few experiences to learn from.
tooFewExperiences(exps) == Len(exps) < MIN_EXPERIENCES_FOR_LEARNING

\* The new state of adaptBias for a given optimal bias: currentBias moves
\* toward it by adaptationRate.
adaptBiasStep(adaptation, muSuccessRate, nonMuSuccessRate, optimalBias, newBias) ==
  [currentBias      |-> clamp(newBias, BIAS_MIN, BIAS_MAX),
   biasHistory      |-> Slice(Append(adaptation.biasHistory, newBias),
                              -BIAS_HISTORY_LIMIT),
   adaptationRate   |-> adaptation.adaptationRate,
   muSuccessRate    |-> muSuccessRate,
   nonMuSuccessRate |-> nonMuSuccessRate,
   optimalBias      |-> optimalBias]

\* A wrong adaptation: the bias stays where it is.
adaptBiasToward_held(adaptation, muSuccessRate, nonMuSuccessRate, optimalBias) ==
  adaptBiasStep(adaptation, muSuccessRate, nonMuSuccessRate, optimalBias,
                adaptation.currentBias)

adaptBiasToward(adaptation, muSuccessRate, nonMuSuccessRate, optimalBias) ==
  adaptBiasStep(adaptation, muSuccessRate, nonMuSuccessRate, optimalBias,
    FAdd(adaptation.currentBias,
         FMul(adaptation.adaptationRate,
              FSub(optimalBias, adaptation.currentBias))))

isNotMuAligned(experience) == ~isMuAligned(experience)

succeeded(experience) == experience.cycleSuccessful

\* adaptBias once the experiences are split into the two groups.
adaptBiasOn(adaptation, muAligned, nonMuAligned) ==
    LET muSuccessRate ==
          IF Len(muAligned) > 0
          THEN RoundDiv(Len(SelectSeq(muAligned, succeeded)) * SCALE, Len(muAligned))
          ELSE adaptation.muSuccessRate
        nonMuSuccessRate ==
          IF Len(nonMuAligned) > 0
          THEN RoundDiv(Len(SelectSeq(nonMuAligned, succeeded)) * SCALE, Len(nonMuAligned))
          ELSE adaptation.nonMuSuccessRate
        muAvgValue ==
          IF Len(muAligned) > 0
          THEN FDivInt(SumValueTo(muAligned, Len(muAligned)), Len(muAligned))
          ELSE 500
        nonMuAvgValue ==
          IF Len(nonMuAligned) > 0
          THEN FDivInt(SumValueTo(nonMuAligned, Len(nonMuAligned)), Len(nonMuAligned))
          ELSE 500
    IN adaptBiasToward(adaptation, muSuccessRate, nonMuSuccessRate,
         MathMax(BIAS_MIN, MathMin(BIAS_MAX,
           FAdd(adaptation.currentBias, FSub(muAvgValue, nonMuAvgValue)))))

adaptBias(adaptation, exps) ==
  IF tooFewExperiences(exps) THEN adaptation
  ELSE adaptBiasOn(adaptation, SelectSeq(exps, isMuAligned),
                   SelectSeq(exps, isNotMuAligned))

\* ------------------------------------------------------------------------
\* Quantum layer (quantum-layer.ts): amplitudes, paths, superpositions
\* ------------------------------------------------------------------------

Square(x) == FMul(x, x)

\* The two while loops that bring an angle difference into [-pi, pi].
RECURSIVE wrapPhase(_)
wrapPhase(d) ==
  IF isNaN(d) THEN NaN
  ELSE IF d > PI THEN wrapPhase(d - 2 * PI)
  ELSE IF d < -PI THEN wrapPhase(d + 2 * PI)
  ELSE d

\* createAmplitude.  (phaseDegrees and basisIndex, which no operation
\* modelled here reads, are not represented.)
createAmplitude(value) ==
  [value |-> value,
   magnitude |-> magnitude(value),
   phase |-> argument(value),
   phaseRelativeToMu |-> wrapPhase(FSub(argument(value), argument(MU))),
   onMuRay |-> isOnBalanceRay(value)]

\* createPath.  (content, a free text, and basisAlignment are not
\* represented.)
createPath(id, type, amplitude, confidence) ==
  [id |-> id, type |-> type, amplitude |-> createAmplitude(amplitude),
   confidence |-> confidence]

\* The forEach of createSuperposition and reasoningStep: the 0-based index
\* of the first strictly largest entry above 0, and 0 when there is none.
RECURSIVE dominantFrom(_, _, _, _)
dominantFrom(probabilities, i, maxProb, dominantIndex) ==
  IF i > Len(probabilities) THEN dominantIndex
  ELSE IF Gt(probabilities[i], maxProb)
  THEN dominantFrom(probabilities, i + 1, probabilities[i], i - 1)
  ELSE dominantFrom(probabilities, i + 1, maxProb, dominantIndex)

\* exp(-phaseVariance), the variance being the mean of the squared wrapped
\* differences from avgPhase.
coherenceAround(phases, avgPhase) ==
  LET RECURSIVE Squares(_)
      Squares(n) ==
        IF n = 0 THEN 0
        ELSE FAdd(Squares(n - 1), Square(wrapPhase(FSub(phases[n], avgPhase))))
  IN FExp(FNeg(FDivInt(Squares(Len(phases)), Len(phases))))

coherenceOf(phases) == coherenceAround(phases, FDivInt(Sum(phases), Len(phases)))

superpositionWith(paths, amplitudes, probabilities, totalProb) ==
  [paths |-> paths,
   amplitudes |-> amplitudes,
   normalized |-> Lt(FAbs(FSub(totalProb, SCALE)), 1),
   totalProbability |-> totalProb,
   dominantPath |-> dominantFrom(probabilities, 1, 0, 0),
   coherence |-> coherenceOf([i \in 1..Len(amplitudes) |-> argument(amplitudes[i])])]

superpositionOver(paths, amplitudes, probabilities) ==
  superpositionWith(paths, amplitudes, probabilities, Sum(probabilities))

\* createSuperposition, for a non-empty list of paths.
createSuperposition(paths) ==
  superpositionOver(paths,
    [i \in 1..Len(paths) |-> paths[i].amplitude.value],
    [i \in 1..Len(paths) |-> Square(magnitude(paths[i].amplitude.value))])

normalizedPaths(paths, normFactor) ==
  [i \in 1..Len(paths) |->
     [paths[i] EXCEPT !.amplitude = createAmplitude(scale(@.value, normFactor))]]

\* A wrong normalize: it divides by the mass rather than by its square root.
normalize_byMass(sup) ==
  IF sup.totalProbability = 0 THEN sup
  ELSE createSuperposition(
         normalizedPaths(sup.paths, FDiv(SCALE, sup.totalProbability)))

\* normalize
normalize(sup) ==
  IF sup.totalProbability = 0 THEN sup
  ELSE createSuperposition(
         normalizedPaths(sup.paths, FDiv(SCALE, FSqrt(sup.totalProbability))))

\* ------------------------------------------------------------------------
\* Quantum layer: Born rule and collapse
\* ------------------------------------------------------------------------

divideBy(weights, total) ==
  [i \in 1..Len(weights) |-> FDiv(weights[i], total)]

\* weights.map(w => w / total), total being the sum of the weights.
overTotal(weights) == divideBy(weights, Sum(weights))

muWeighted(amplitudes, muWeight) ==
  [i \in 1..Len(amplitudes) |->
     FMul(Square(magnitude(amplitudes[i])),
          FExp(FMul(FNeg(muWeight), distanceFrom(amplitudes[i], MU))))]

\* bornProbabilities
bornProbabilities(sup, muWeight) ==
  IF muWeight = 0
  THEN overTotal([i \in 1..Len(sup.amplitudes) |->
                    Square(magnitude(sup.amplitudes[i]))])
  ELSE overTotal(muWeighted(sup.amplitudes, muWeight))

\* A wrong walk: it stops where the cumulative sum reaches the draw.
RECURSIVE selectFrom_reaching(_, _, _, _)
selectFrom_reaching(probs, random, i, cumulative) ==
  IF i > Len(probs) THEN 0
  ELSE IF Ge(FAdd(cumulative, probs[i]), random) THEN i - 1
  ELSE selectFrom_reaching(probs, random, i + 1, FAdd(cumulative, probs[i]))

selectIndex_reaching(probs, random) == selectFrom_reaching(probs, random, 1, 0)

\* The selection loop of collapse and performCollapse, from position i with
\* the cumulative sum so far: the 0-based index at which random < cumulative
\* first holds, and the initial selectedIndex, 0, when the loop ends without.
RECURSIVE selectFrom(_, _, _, _)
selectFrom(probs, random, i, cumulative) ==
  IF i > Len(probs) THEN 0
  ELSE IF Lt(random, FAdd(cumulative, probs[i])) THEN i - 1
  ELSE selectFrom(probs, random, i + 1, FAdd(cumulative, probs[i]))

selectIndex(probs, random) == selectFrom(probs, random, 1, 0)

collapseAt(sup, probs, selectedIndex) ==
  [selectedPath |-> sup.paths[selectedIndex + 1],
   selectedIndex |-> selectedIndex,
   probability |-> probs[selectedIndex + 1],
   projectedAmplitude |-> projectToBalanceRay(sup.amplitudes[selectedIndex + 1]),
   wasOnMuRay |-> sup.paths[selectedIndex + 1].amplitude.onMuRay]

collapseWith(sup, probs, random) ==
  collapseAt(sup, probs, selectIndex(probs, random))

\* collapse, for a non-empty superposition and an explicit random draw.
collapse(sup, muWeight, random) ==
  collapseWith(sup, bornProbabilities(sup, muWeight), random)

softCollapsedPaths(paths, measuredIndex, collapseStrength) ==
  [i \in 1..Len(paths) |->
     [paths[i] EXCEPT !.amplitude =
        createAmplitude(fromPolar(
          IF i - 1 = measuredIndex
          THEN FAdd(@.magnitude, FMul(FSub(SCALE, @.magnitude), collapseStrength))
          ELSE FMul(@.magnitude, FSub(SCALE, collapseStrength)),
          @.phase))]]

\* softCollapse
softCollapse(sup, measuredIndex, collapseStrength) ==
  normalize(createSuperposition(
    softCollapsedPaths(sup.paths, measuredIndex, collapseStrength)))

\* ------------------------------------------------------------------------
\* Quantum layer: the Maxwell demon and the reasoner
\* ------------------------------------------------------------------------

\* The default muBias of createDemon.
DEFAULT_MU_BIAS == 1000

\* The demon's cost factor: it pays 1.1 times what it gains.
DEMON_COST_FACTOR == 1100

\* The 0.01 added to the largest distance in the demon's weights.
MAX_DIST_OFFSET == 10

\* createDemon
createDemon(muBias) ==
  [entropyReduced |-> 0, informationCost |-> 0, selectionsMade |-> 0,
   muBias |-> muBias]

\* Math.max(...xs) of a non-empty list.
MaxOf(xs) ==
  LET RECURSIVE MaxTo(_)
      MaxTo(n) == IF n = 1 THEN xs[1] ELSE MathMax(MaxTo(n - 1), xs[n])
  IN MaxTo(Len(xs))

demonWeightsFor(distances, muBias, maxDist) ==
  [i \in 1..Len(distances) |->
     FExp(FDiv(FMul(FNeg(muBias), distances[i]), FAdd(maxDist, MAX_DIST_OFFSET)))]

\* The weights of demonSelect: exp(-muBias * d / (maxDist + 0.01)).
demonWeights(amplitudes, muBias) ==
  demonWeightsFor([i \in 1..Len(amplitudes) |-> distanceFrom(amplitudes[i], MU)],
                  muBias,
                  MaxOf([i \in 1..Len(amplitudes) |-> distanceFrom(amplitudes[i], MU)]))

reweightedPaths(paths, weights) ==
  [i \in 1..Len(paths) |->
     [paths[i] EXCEPT !.amplitude =
        createAmplitude(fromPolar(FMul(@.magnitude, weights[i]), @.phase))]]

entropyTerm(s, p) == IF Gt(p, 0) THEN FAdd(s, FMul(p, FLn(p))) ELSE s

\* The entropy demonSelect computes for a superposition: minus the sum of
\* p ln p over the entries p = |a|^2 / totalProbability that are above 0.
entropyOf(sup) ==
  LET RECURSIVE SumTerms(_)
      SumTerms(n) ==
        IF n = 0 THEN 0
        ELSE entropyTerm(SumTerms(n - 1),
                         FDiv(Square(magnitude(sup.amplitudes[n])),
                              sup.totalProbability))
  IN FNeg(SumTerms(Len(sup.amplitudes)))

\* A wrong cumulative reduction: negative reductions are dropped.
accumulateReduction_clamped(entropyReduced, entropyReduction) ==
  FAdd(entropyReduced, MathMax(0, entropyReduction))

\* demon.entropyReduced + entropyReduction
accumulateReduction(entropyReduced, entropyReduction) ==
  FAdd(entropyReduced, entropyReduction)

\* A wrong cost: the signed reduction times the cost factor.
infoCostOf_signed(entropyReduction) == FMul(entropyReduction, DEMON_COST_FACTOR)

\* Math.abs(entropyReduction) * 1.1
infoCostOf(entropyReduction) == FMul(FAbs(entropyReduction), DEMON_COST_FACTOR)

demonSelectWith(demon, newSup, entropyReduction) ==
  [newSuperposition |-> newSup,
   updatedDemon |->
     [demon EXCEPT
        !.entropyReduced = accumulateReduction(@, entropyReduction),
        !.informationCost = FAdd(@, infoCostOf(entropyReduction)),
        !.selectionsMade = @ + 1]]

demonSelectOn(sup, demon, newSup) ==
  demonSelectWith(demon, newSup, FSub(entropyOf(sup), entropyOf(newSup)))

\* demonSelect, for a non-empty superposition.
demonSelect(sup, demon) ==
  demonSelectOn(sup, demon,
    normalize(createSuperposition(
      reweightedPaths(sup.paths, demonWeights(sup.amplitudes, demon.muBias)))))

\* validate with no constraint (the default of createReasoner): every path
\* scores 1.0.
pathScores(sup) == [i \in 1..Len(sup.paths) |-> SCALE]

\* The best-validated path of reasoningStep.
bestIndexOf(sup, scores) ==
  dominantFrom([i \in 1..Len(scores) |->
                  FMul(scores[i], Square(magnitude(sup.amplitudes[i])))],
               1, 0, 0)

reasoningStepOn(selected, softCollapseStrength) ==
  [superposition |->
     softCollapse(selected.newSuperposition,
                  bestIndexOf(selected.newSuperposition,
                              pathScores(selected.newSuperposition)),
                  softCollapseStrength),
   demon |-> selected.updatedDemon]

\* reasoningStep of a reasoner without constraints: the fields of the
\* returned reasoner that differ from the given one.
reasoningStep(sup, demon, softCollapseStrength) ==
  reasoningStepOn(demonSelect(sup, demon), softCollapseStrength)

\* ------------------------------------------------------------------------
\* Measurement layer (measurement-layer.ts)
\* ------------------------------------------------------------------------

DEFAULT_BORN_CONFIG ==
  [muWeight |-> SCALE \div 2, confidenceWeight |-> SCALE \div 2,
   temperature |-> SCALE]

\* The fields of the default configuration that performCollapse reads.
DEFAULT_COLLAPSE_CONFIG ==
  [bornConfig |-> DEFAULT_BORN_CONFIG, projectToMu |-> TRUE]

\* One weight of muGroundedBornRule:
\* quantumProb * muFactor * confFactor * boltzmann.
bornWeight(amp, confidence, config) ==
  FMul(FMul(FMul(Square(magnitude(amp)),
                 FExp(FMul(FNeg(config.muWeight), distanceFrom(amp, MU)))),
            FAdd(SCALE, FMul(config.confidenceWeight,
                             FSub(confidence, SCALE \div 2)))),
       FExp(FDiv(FNeg(energy(amp)), config.temperature)))

\* muGroundedBornRule
muGroundedBornRule(sup, config) ==
  overTotal([i \in 1..Len(sup.paths) |->
               bornWeight(sup.amplitudes[i], sup.paths[i].confidence, config)])

groundingOf(rawAmplitude, groundedAmplitude) ==
  FAbs(FSub(energy(rawAmplitude), energy(groundedAmplitude)))

performCollapseAt(sup, config, probs, selectedIndex) ==
  [selectedIndex |-> selectedIndex,
   selectedPath |-> sup.paths[selectedIndex + 1],
   probability |-> probs[selectedIndex + 1],
   rawAmplitude |-> sup.amplitudes[selectedIndex + 1],
   groundedAmplitude |->
     IF config.projectToMu
     THEN projectToBalanceRay(sup.amplitudes[selectedIndex + 1])
     ELSE sup.amplitudes[selectedIndex + 1],
   groundingCost |->
     IF config.projectToMu
     THEN groundingOf(sup.amplitudes[selectedIndex + 1],
                      projectToBalanceRay(sup.amplitudes[selectedIndex + 1]))
     ELSE 0]

performCollapseWith(sup, config, probs, randomValue) ==
  performCollapseAt(sup, config, probs, selectIndex(probs, randomValue))

\* performCollapse, for a non-empty superposition and an explicit random
\* value.
performCollapse(sup, config, randomValue) ==
  performCollapseWith(sup, config, muGroundedBornRule(sup, config.bornConfig),
                      randomValue)

\* A wrong verdict: the on-ray and low-energy checks gate it too.
verifyResult_allChecks(onBalanceRay, alignment, alignmentThreshold, energyLevel, confidence, confidenceThreshold) ==
  [passed          |-> /\ Ge(alignment, alignmentThreshold)
                       /\ Ge(confidence, confidenceThreshold)
                       /\ onBalanceRay
                       /\ Lt(energyLevel, SCALE \div 2),
   score           |-> FAdd(FAdd(FAdd(IF onBalanceRay THEN 300 ELSE 0,
                                      FMul(alignment, 300)),
                                 FMul(FSub(SCALE, MathMin(energyLevel, SCALE)), 200)),
                            FMul(confidence, 200)),
   muAlignment     |-> alignment,
   energyLevel     |-> energyLevel,
   onBalanceRay    |-> onBalanceRay,
   confidenceCheck |-> Ge(confidence, confidenceThreshold),
   details         |-> <<onBalanceRay,
                         Ge(alignment, alignmentThreshold),
                         Lt(energyLevel, SCALE \div 2),
                         Ge(confidence, confidenceThreshold)>>]

\* The result verify builds from its four checks. details holds one line
\* per check; the model keeps of each line whether the check was met.
verifyResult(onBalanceRay, alignment, alignmentThreshold, energyLevel, confidence, confidenceThreshold) ==
  [passed          |-> /\ Ge(alignment, alignmentThreshold)
                       /\ Ge(confidence, confidenceThreshold),
   score           |-> FAdd(FAdd(FAdd(IF onBalanceRay THEN 300 ELSE 0,
                                      FMul(alignment, 300)),
                                 FMul(FSub(SCALE, MathMin(energyLevel, SCALE)), 200)),
                            FMul(confidence, 200)),
   muAlignment     |-> alignment,
   energyLevel     |-> energyLevel,
   onBalanceRay    |-> onBalanceRay,
   confidenceCheck |-> Ge(confidence, confidenceThreshold),
   details         |-> <<onBalanceRay,
                         Ge(alignment, alignmentThreshold),
                         Lt(energyLevel, SCALE \div 2),
                         Ge(confidence, confidenceThreshold)>>]

\* muAlignment is the cosine similarity with mu, normalized to [0, 1], and
\* 0 for a zero amplitude.
verify(amplitude, path, muAlignmentThreshold, confidenceThreshold) ==
  LET dot == FAdd(FMul(amplitude.re, MU.re), FMul(amplitude.im, MU.im))
      mag == FMul(magnitude(amplitude), magnitude(MU))
  IN verifyResult(isOnBalanceRay(amplitude),
                  IF Gt(mag, 0)
                  THEN FDiv(FAdd(FDiv(dot, mag), SCALE), 2 * SCALE)
                  ELSE 0,
                  muAlignmentThreshold, energy(amplitude),
                  path.confidence, confidenceThreshold)

\* -sum of p ln p over the entries above 0.
normEntropy(norm) ==
  LET RECURSIVE SumTerms(_)
      SumTerms(n) == IF n = 0 THEN 0 ELSE entropyTerm(SumTerms(n - 1), norm[n])
  IN FNeg(SumTerms(Len(norm)))

\* priorNorm / postNorm of demonAtMeasurement.
normOf(sup) ==
  overTotal([i \in 1..Len(sup.amplitudes) |->
               Square(magnitude(sup.amplitudes[i]))])

demonMeasurement(selected, priorNorm, postNorm, priorEntropy, posteriorEntropy) ==
  [biasedSuperposition |-> selected.newSuperposition,
   measurement |->
     [demon |-> selected.updatedDemon,
      priorEntropy |-> priorEntropy,
      posteriorEntropy |-> posteriorEntropy,
      entropyReduction |-> FSub(priorEntropy, posteriorEntropy),
      informationCost |-> infoCostOf(FSub(priorEntropy, posteriorEntropy)),
      biasApplied |-> FSub(MaxOf(postNorm), MaxOf(priorNorm))]]

demonMeasurementOver(selected, priorNorm, postNorm) ==
  demonMeasurement(selected, priorNorm, postNorm,
                   normEntropy(priorNorm), normEntropy(postNorm))

demonAtMeasurementOn(sup, selected) ==
  demonMeasurementOver(selected, normOf(sup), normOf(selected.newSuperposition))

\* demonAtMeasurement, for a non-empty superposition.
demonAtMeasurement(sup, demon) ==
  demonAtMeasurementOn(sup, demonSelect(sup, demon))

\* ------------------------------------------------------------------------
\* Measurement layer: the full measurement and the observer
\* ------------------------------------------------------------------------

\* DEFAULT_MEASUREMENT_CONFIG
DEFAULT_MEASUREMENT_CONFIG ==
  [useDemon |-> TRUE, demonBias |-> SCALE,
   collapseConfig |-> DEFAULT_COLLAPSE_CONFIG,
   muAlignmentThreshold |-> (7 * SCALE) \div 10,
   confidenceThreshold |-> SCALE \div 2]

\* measure, for a non-empty superposition and an explicit random value.
\* (id and timestamp, and priorEntropy, uncertainty and confidence, which
\* measure computes from the prior superposition and no operation modelled
\* here reads, are not represented.)
measure(sup, config, randomValue) ==
  LET collapsed ==
        performCollapse(
          IF config.useDemon
          THEN demonAtMeasurement(sup, createDemon(config.demonBias)).biasedSuperposition
          ELSE sup,
          config.collapseConfig, randomValue)
  IN [priorSuperposition |-> sup,
      selectedIndex |-> collapsed.selectedIndex,
      selectedPath |-> collapsed.selectedPath,
      collapseProbability |-> collapsed.probability,
      posteriorAmplitude |-> collapsed.rawAmplitude,
      groundedAmplitude |-> collapsed.groundedAmplitude,
      wasAlreadyGrounded |-> isOnBalanceRay(collapsed.rawAmplitude),
      groundingCost |-> collapsed.groundingCost,
      verified |-> verify(collapsed.groundedAmplitude, collapsed.selectedPath,
                          config.muAlignmentThreshold,
                          config.confidenceThreshold).passed]

\* createObserver('primary').  (The history field refers to the one
\* MeasurementHistory object the call creates; its events are the variable
\* events.  The spread in observe copies the reference, so every Observer
\* value derived from this one refers to the same object.)
createObserver ==
  [id |-> "primary", measurementCount |-> 0, totalEntropyCost |-> 0,
   config |-> DEFAULT_MEASUREMENT_CONFIG]

\* observe's return value for the event it measured and recorded.
observe(observer, event) ==
  [event |-> event,
   updatedObserver |->
     [observer EXCEPT !.measurementCount = @ + 1,
                      !.totalEntropyCost = FAdd(@, event.groundingCost)]]

\* ------------------------------------------------------------------------
\* State
\* ------------------------------------------------------------------------

VARIABLES
  experiences,      \* LearningLayer.experiences
  valueFunction,    \* LearningLayer.valueFunction
  biasAdaptation,   \* LearningLayer.biasAdaptation
  predictionErrors, \* LearningLayer.predictionErrors
  recordCount,      \* number of recordExperience calls made so far
  learnCount,       \* number of learn calls made so far
  resetAt,          \* recordCount at the last reset call, 0 before any
  lastCall,         \* the last call made, its arguments and result
  superposition,    \* QuantumReasoner.superposition
  demon,            \* QuantumReasoner.demon, CognitiveSystem.demon
  observers,        \* the Observer values made so far, the last the newest
  events,           \* MeasurementHistory.events of the history they share
  cycleCount        \* CognitiveSystem.cycleCount

learningVars ==
  <<experiences, valueFunction, biasAdaptation, predictionErrors,
    recordCount, learnCount, resetAt>>

reasonerVars == <<superposition, demon>>

systemVars == <<observers, events, cycleCount>>

vars == <<learningVars, lastCall, reasonerVars, systemVars>>

\* ------------------------------------------------------------------------
\* Bounds and inputs of the learning layer
\* ------------------------------------------------------------------------

\* Calls of recordExperience and of learn explored from construction.
MaxRecords == 11

MaxLearns == 2

\* The first recordings replay a fixed alternation; later ones are free.
WarmupRecords == 10

\* Initial biases passed to the constructor: 0.1, the default 1.0, 2.0, and
\* 5.0, which the constructor accepts as it accepts any number.
InitialBiases == {100, 1000, 2000, 5000}

\* Batch sizes passed to learn.
BatchSizes == {0, 1, 10}

TargetOnRay ==
  [content |-> MU, saliency |-> 800, relevance |-> 700, modality |-> "intuitive"]

TargetOffRay ==
  [content |-> Complex(SCALE, 0), saliency |-> 300, relevance |-> 500,
   modality |-> "analytical"]

TargetNaN ==
  [content |-> Complex(0, SCALE), saliency |-> NaN, relevance |-> 500,
   modality |-> "neural"]

AlignedSuccess ==
  [successful |-> TRUE, coherence |-> 900, broadcast |-> TRUE,
   muAlignment |-> 900, identityGrowth |-> 100, entropyPaid |-> 200]

\* As AlignedSuccess but for the alignment and the success.
NonAlignedFailure ==
  [successful |-> FALSE, coherence |-> 900, broadcast |-> TRUE,
   muAlignment |-> 100, identityGrowth |-> 100, entropyPaid |-> 200]

AlignedFailure ==
  [successful |-> FALSE, coherence |-> 200, broadcast |-> FALSE,
   muAlignment |-> 900, identityGrowth |-> -100, entropyPaid |-> 800]

Worthless ==
  [successful |-> FALSE, coherence |-> 0, broadcast |-> FALSE,
   muAlignment |-> 0, identityGrowth |-> 0, entropyPaid |-> 0]

NaNOutcome ==
  [successful |-> TRUE, coherence |-> NaN, broadcast |-> TRUE,
   muAlignment |-> 800, identityGrowth |-> 0, entropyPaid |-> 100]

\* A failure late in a long run: entropyPaid includes the demon's cumulative
\* informationCost, here 300.
Costly ==
  [successful |-> FALSE, coherence |-> 200, broadcast |-> FALSE,
   muAlignment |-> 900, identityGrowth |-> 0, entropyPaid |-> 300 * SCALE]

\* What a cycle hands to recordExperience: a target, the selection entropy
\* and the outcome.
Stimuli ==
  {[target |-> TargetOnRay,  entropy |-> 400, outcome |-> AlignedSuccess],
   [target |-> TargetOffRay, entropy |-> 900, outcome |-> NonAlignedFailure],
   [target |-> TargetOffRay, entropy |-> 700, outcome |-> AlignedFailure],
   [target |-> TargetOnRay,  entropy |-> 0,   outcome |-> Worthless],
   [target |-> TargetNaN,    entropy |-> 500, outcome |-> NaNOutcome],
   [target |-> TargetOnRay,  entropy |-> 600, outcome |-> Costly]}

WarmupStimulus(n) ==
  IF n % 2 = 0
  THEN [target |-> TargetOnRay,  entropy |-> 400, outcome |-> AlignedSuccess]
  ELSE [target |-> TargetOffRay, entropy |-> 900, outcome |-> NonAlignedFailure]

\* The stimuli the n-th recording (counted from 0) may carry.
StimuliAt(n, warmup) == IF n < warmup THEN {WarmupStimulus(n)} ELSE Stimuli

NoCall == [op |-> "none"]

\* The value of a variable whose object has not been created.
Absent == [absent |-> TRUE]

\* ------------------------------------------------------------------------
\* LearningLayer
\* ------------------------------------------------------------------------

\* new LearningLayer(initialBias)
LearningLayerInit(initialBias) ==
  /\ experiences = <<>>
  /\ valueFunction = createValueFunction
  /\ biasAdaptation = createBiasAdaptation(initialBias)
  /\ predictionErrors = <<>>
  /\ recordCount = 0
  /\ learnCount = 0
  /\ resetAt = 0
  /\ lastCall = NoCall

\* A learning layer on its own: no reasoner has been created.
LearningInit(initialBias) ==
  /\ LearningLayerInit(initialBias)
  /\ superposition = Absent
  /\ demon = Absent
  /\ observers = <<>>
  /\ events = <<>>
  /\ cycleCount = 0

\* A wrong eviction: on overflow the buffer keeps its oldest entries.
RecordExperience_keepOldest(stimulus) ==
  LET experience == createExperience(recordCount, stimulus.target,
                      biasAdaptation.currentBias, stimulus.entropy, stimulus.outcome)
      pushed     == Append(experiences, experience)
  IN /\ experiences' =
          IF Len(pushed) > EXPERIENCE_BUFFER_SIZE
          THEN SubSeq(pushed, 1, EXPERIENCE_BUFFER_SIZE)
          ELSE pushed
     /\ recordCount' = recordCount + 1
     /\ lastCall' = [op |-> "recordExperience", result |-> experience]
     /\ UNCHANGED <<valueFunction, biasAdaptation, predictionErrors, learnCount, resetAt>>
     /\ UNCHANGED <<reasonerVars, systemVars>>

\* LearningLayer.recordExperience; demonBias is the layer's current bias,
\* as CognitiveSystem.cycle passes it.
RecordExperience(stimulus) ==
  LET experience == createExperience(recordCount, stimulus.target,
                      biasAdaptation.currentBias, stimulus.entropy, stimulus.outcome)
      pushed     == Append(experiences, experience)
  IN /\ experiences' =
          IF Len(pushed) > EXPERIENCE_BUFFER_SIZE
          THEN Slice(pushed, -EXPERIENCE_BUFFER_SIZE)
          ELSE pushed
     /\ recordCount' = recordCount + 1
     /\ lastCall' = [op |-> "recordExperience", result |-> experience]
     /\ UNCHANGED <<valueFunction, biasAdaptation, predictionErrors, learnCount, resetAt>>
     /\ UNCHANGED <<reasonerVars, systemVars>>

\* The loop of learn over recentExperiences[i..]: each experience is scored
\* against the value function as updated by the ones before it.
RECURSIVE learnLoop(_, _, _, _, _)
RECURSIVE learnIteration(_, _, _, _, _, _)
learnLoop(recent, i, valueFunc, errors, totalError) ==
  IF i > Len(recent)
  THEN [valueFunction |-> valueFunc, predictionErrors |-> errors,
        totalError |-> totalError]
  ELSE learnIteration(recent, i, valueFunc, errors, totalError,
                      computePredictionError(recent[i], valueFunc))

\* One iteration of the loop, given the prediction error of experience i.
learnIteration(recent, i, valueFunc, errors, totalError, predictionError) ==
  IF isNaN(predictionError.absoluteError)
  THEN learnLoop(recent, i + 1,
                 updateValueFunction(valueFunc, recent[i], predictionError),
                 Append(errors, predictionError),
                 FAdd(totalError, 0))
  ELSE learnLoop(recent, i + 1,
                 updateValueFunction(valueFunc, recent[i], predictionError),
                 Append(errors, predictionError),
                 FAdd(totalError, predictionError.absoluteError))

\* The experiences learn replays: this.experiences.slice(-batchSize).
recentExperiences(exps, batchSize) == Slice(exps, -batchSize)

\* The body of learn once the buffer is large enough: the new fields of
\* the layer and the value returned.
\* The end of learn: adapt the bias on the credited buffer, trim the error
\* history, build the result.
learnFinish(adaptation, recent, credited, loop, adapted) ==
  [experiences      |-> credited,
   valueFunction    |-> loop.valueFunction,
   biasAdaptation   |-> adapted,
   predictionErrors |->
     IF Len(loop.predictionErrors) > PREDICTION_ERROR_LIMIT
     THEN Slice(loop.predictionErrors, -PREDICTION_ERROR_LIMIT)
     ELSE loop.predictionErrors,
   result |-> [valueFunctionUpdated |-> TRUE,
               biasUpdated  |-> adapted.currentBias # adaptation.currentBias,
               averageError |-> FDivInt(loop.totalError, Len(recent)),
               newBias      |-> adapted.currentBias]]

\* learn on the replay window recent: credit, value-function loop, bias.
learnOn(exps, valueFunc, adaptation, errors, recent, credited) ==
  learnFinish(adaptation, recent, credited,
              learnLoop(recent, 1, valueFunc, errors, 0),
              adaptBias(adaptation, credited))

learnWindow(exps, valueFunc, adaptation, errors, recent) ==
  learnOn(exps, valueFunc, adaptation, errors, recent,
          applyCredit(exps, assignCredit(recent, recent[Len(recent)].valueGained)))

learn(exps, valueFunc, adaptation, errors, batchSize) ==
  learnWindow(exps, valueFunc, adaptation, errors,
              recentExperiences(exps, batchSize))

\* LearningLayer.learn(batchSize)
Learn(batchSize) ==
  /\ learnCount' = learnCount + 1
  /\ UNCHANGED <<recordCount, resetAt, reasonerVars, systemVars>>
  /\ IF tooFewExperiences(experiences)
     THEN /\ lastCall' = [op |-> "learn", batchSize |-> batchSize,
                          result |-> [valueFunctionUpdated |-> FALSE,
                                      biasUpdated |-> FALSE,
                                      averageError |-> 0,
                                      newBias |-> biasAdaptation.currentBias]]
          /\ UNCHANGED <<experiences, valueFunction, biasAdaptation, predictionErrors>>
     ELSE \E after \in {learn(experiences, valueFunction, biasAdaptation,
                              predictionErrors, batchSize)} :
             /\ experiences' = after.experiences
             /\ valueFunction' = after.valueFunction
             /\ biasAdaptation' = after.biasAdaptation
             /\ predictionErrors' = after.predictionErrors
             /\ lastCall' = [op |-> "learn", batchSize |-> batchSize,
                             result |-> after.result]

\* ------------------------------------------------------------------------
\* Specification of the learning layer: any interleaving of
\* recordExperience and learn from construction.
\* ------------------------------------------------------------------------

Init == \E initialBias \in InitialBiases : LearningInit(initialBias)

Next ==
  \/ /\ recordCount < MaxRecords
     /\ \E stimulus \in StimuliAt(recordCount, WarmupRecords) :
          RecordExperience(stimulus)
  \/ /\ learnCount < MaxLearns
     /\ \E batchSize \in BatchSizes : Learn(batchSize)

Spec == Init /\ [][Next]_vars

\* ------------------------------------------------------------------------
\* Specification of the experience buffer: recordExperience calls from
\* construction until the buffer has overflowed.
\* ------------------------------------------------------------------------

\* Recordings explored, the first BufferWarmup of them a fixed alternation.
MaxBufferRecords == 502

BufferWarmup == 499

NextBuffer ==
  /\ recordCount < MaxBufferRecords
  /\ \E stimulus \in StimuliAt(recordCount, BufferWarmup) : RecordExperience(stimulus)

SpecBuffer == LearningInit(SCALE) /\ [][NextBuffer]_vars

\* ------------------------------------------------------------------------
\* Specification of a learning layer that is reset: recordExperience, learn
\* and reset calls in any order from construction.
\* ------------------------------------------------------------------------

\* A wrong reset: fullReset, which also restores the initial value function
\* and bias adaptation.
Reset_full ==
  /\ experiences' = <<>>
  /\ predictionErrors' = <<>>
  /\ valueFunction' = createValueFunction
  /\ biasAdaptation' = createBiasAdaptation(SCALE)
  /\ resetAt' = recordCount
  /\ lastCall' = [op |-> "reset"]
  /\ UNCHANGED <<recordCount, learnCount, reasonerVars, systemVars>>

\* LearningLayer.reset()
Reset ==
  /\ experiences' = <<>>
  /\ predictionErrors' = <<>>
  /\ resetAt' = recordCount
  /\ lastCall' = [op |-> "reset"]
  /\ UNCHANGED <<valueFunction, biasAdaptation, recordCount, learnCount,
                 reasonerVars, systemVars>>

\* reset is called on a layer that holds something to clear.
NextReset ==
  \/ /\ recordCount < MaxRecords
     /\ \E stimulus \in StimuliAt(recordCount, WarmupRecords) :
          RecordExperience(stimulus)
  \/ /\ learnCount < MaxLearns
     /\ Learn(MIN_EXPERIENCES_FOR_LEARNING)
  \/ /\ experiences # <<>>
     /\ Reset

SpecReset == LearningInit(SCALE) /\ [][NextReset]_vars

\* ------------------------------------------------------------------------
\* Properties of the learning layer
\* ------------------------------------------------------------------------

InBiasRange(b) == ~isNaN(b) /\ BIAS_MIN <= b /\ b <= BIAS_MAX

\* C1: in every reachable state of a LearningLayer, whatever initial bias
\* the constructor was given, currentBias lies in [0.1, 2.0].
C1_BiasWithinBounds == InBiasRange(biasAdaptation.currentBias)

\* C2: recordExperience always succeeds, and the buffer holds at most
\* EXPERIENCE_BUFFER_SIZE entries, which are exactly the most recently
\* recorded experiences in recording order (oldest evicted first): entry i
\* is the recording number recordCount - Len + i, and the entry just
\* returned by recordExperience is the last one.
C2_BufferHoldsMostRecent ==
  /\ Len(experiences) = Min(recordCount, EXPERIENCE_BUFFER_SIZE)
  /\ \A i \in 1..Len(experiences) :
       experiences[i].id = recordCount - Len(experiences) + i - 1
  /\ lastCall.op = "recordExperience" =>
       /\ Len(experiences) > 0
       /\ experiences[Len(experiences)] = lastCall.result

\* C2 witness: a recording has been made into a full buffer.
C2_Witness ==
  /\ lastCall.op = "recordExperience"
  /\ recordCount > EXPERIENCE_BUFFER_SIZE + 1

\* C3: a learn call made while fewer than MIN_EXPERIENCES_FOR_LEARNING
\* experiences are buffered reports not-updated and changes neither the
\* value function, nor the bias adaptation, nor any experience (so no
\* creditAssigned), nor the prediction-error history.
C3_LearnIsNoOpBelowMinimum ==
  [][(learnCount' = learnCount + 1 /\
      Len(experiences) < MIN_EXPERIENCES_FOR_LEARNING)
     => /\ lastCall'.op = "learn"
        /\ lastCall'.result.valueFunctionUpdated = FALSE
        /\ lastCall'.result.biasUpdated = FALSE
        /\ lastCall'.result.newBias = biasAdaptation.currentBias
        /\ valueFunction' = valueFunction
        /\ biasAdaptation' = biasAdaptation
        /\ experiences' = experiences
        /\ predictionErrors' = predictionErrors]_vars

\* C3 witness: learn has been called on a non-empty buffer below the
\* minimum and has reported not-updated.
C3_Witness ==
  /\ lastCall.op = "learn"
  /\ Len(experiences) = MIN_EXPERIENCES_FOR_LEARNING - 1
  /\ lastCall.result.valueFunctionUpdated = FALSE

\* ------------------------------------------------------------------------
\* Specification of the quantum and measurement layers: a caller holding a
\* superposition and a demon, calling the operations of the two layers.
\* ------------------------------------------------------------------------

\* Reasoning steps explored on one reasoner.
MaxSelections == 2

\* Four equal paths on the axes, each of probability 0.25.
FourEqualPaths ==
  <<createPath("p0", "integrative", Complex(SCALE \div 2, 0), 800),
    createPath("p1", "neural", Complex(0, SCALE \div 2), 800),
    createPath("p2", "critical", Complex(-(SCALE \div 2), 0), 800),
    createPath("p3", "analytical", Complex(0, -(SCALE \div 2)), 800)>>

\* Three equal paths of amplitude 1: probabilities of 1/3, whose rounded
\* sum falls short of 1.
ThreeEqualPaths ==
  <<createPath("p0", "integrative", Complex(SCALE, 0), 800),
    createPath("p1", "neural", Complex(0, SCALE), 500),
    createPath("p2", "critical", Complex(-SCALE, 0), 300)>>

\* Every amplitude is zero.
ZeroPaths ==
  <<createPath("p0", "integrative", Complex(0, 0), 800),
    createPath("p1", "neural", Complex(0, 0), 800),
    createPath("p2", "critical", Complex(0, 0), 800)>>

\* A dominant path opposite to MU and a weak one along MU: the demon's
\* reweighting raises the entropy.
OpposedPaths ==
  <<createPath("p0", "analytical", scale(MU, -900), 800),
    createPath("p1", "intuitive", scale(MU, 300), 600)>>

\* A strong path along MU and a weaker one off the ray.
GroundedPaths ==
  <<createPath("p0", "intuitive", scale(MU, 800), 900),
    createPath("p1", "integrative", Complex(600, 0), 400)>>

\* A zero amplitude ahead of three equal ones: probabilities 0 and three
\* times 1/3, whose rounded sum falls short of 1.
LeadingZeroPaths ==
  <<createPath("p0", "creative", Complex(0, 0), 800),
    createPath("p1", "integrative", Complex(SCALE, 0), 700),
    createPath("p2", "neural", Complex(0, SCALE), 700),
    createPath("p3", "critical", Complex(-SCALE, 0), 700)>>

\* A single path.
SinglePath == <<createPath("p0", "intuitive", MU, 1000)>>

\* A single path off the ray, on the other diagonal: 0.5 + 0.5i, at 45
\* degrees.
SingleOffRayPath ==
  <<createPath("p0", "integrative", Complex(SCALE \div 2, SCALE \div 2), 700)>>

\* A single path of amplitude zero.
SingleZeroPath == <<createPath("p0", "creative", Complex(0, 0), 800)>>

PathSets ==
  {FourEqualPaths, ThreeEqualPaths, ZeroPaths, OpposedPaths, GroundedPaths,
   LeadingZeroPaths, SinglePath, SingleOffRayPath, SingleZeroPath}

DemonBiases == {DEFAULT_MU_BIAS, 2 * SCALE}

MuWeights == {0, SCALE \div 2}

\* Random draws in [0, 1).
RandomDraws == {0, SCALE \div 10, SCALE \div 4, SCALE - 1}

\* reasoningStep's default softCollapseStrength, 0.1.
SoftCollapseStrengths == {SCALE \div 10}

\* Thresholds passed to verify: its default alignment threshold 0.8 and
\* the 0.7 of the default measurement configuration; confidence 0.5.
AlignmentThresholds == {(7 * SCALE) \div 10, (8 * SCALE) \div 10}

ConfidenceThresholds == {SCALE \div 2}

\* A caller's superposition, as createSuperposition returns it, and demon,
\* as createDemon returns it; the learning layer is a fresh one.
ReasonerInit(paths, muBias) ==
  /\ LearningLayerInit(SCALE)
  /\ superposition = createSuperposition(paths)
  /\ demon = createDemon(muBias)
  /\ observers = <<>>
  /\ events = <<>>
  /\ cycleCount = 0

\* The caller normalizes its superposition.
Normalize ==
  /\ superposition' = normalize(superposition)
  /\ lastCall' = [op |-> "normalize", sup |-> superposition]
  /\ UNCHANGED <<demon, learningVars, systemVars>>

\* A call of bornProbabilities on the caller's superposition.
BornProbabilities(muWeight) ==
  /\ lastCall' = [op |-> "bornProbabilities", muWeight |-> muWeight,
                  result |-> bornProbabilities(superposition, muWeight)]
  /\ UNCHANGED <<reasonerVars, learningVars, systemVars>>

\* A call of collapse on the caller's superposition.
Collapse(muWeight, random) ==
  /\ lastCall' = [op |-> "collapse", muWeight |-> muWeight, random |-> random,
                  result |-> collapse(superposition, muWeight, random)]
  /\ UNCHANGED <<reasonerVars, learningVars, systemVars>>

\* A call of performCollapse with the default configuration.
PerformCollapse(randomValue) ==
  /\ lastCall' = [op |-> "performCollapse", random |-> randomValue,
                  result |-> performCollapse(superposition,
                                             DEFAULT_COLLAPSE_CONFIG, randomValue)]
  /\ UNCHANGED <<reasonerVars, learningVars, systemVars>>

\* reasoner = finalCollapse(reasoner, muWeight): the call of collapse passes
\* no draw, so the draw is the parameter's default, Math.random(), a number
\* of [0, 1) that is no argument of the call.
FinalCollapse(muWeight) ==
  /\ \E random \in RandomDraws :
       lastCall' = [op |-> "finalCollapse", muWeight |-> muWeight,
                    result |-> [collapsed |-> TRUE,
                                result |-> collapse(superposition, muWeight, random)]]
  /\ UNCHANGED <<reasonerVars, learningVars, systemVars>>

\* A call of verify on path i of the caller's superposition and its
\* amplitude, as it is or grounded (projected onto the ray) as measure
\* passes it.
Verify(i, grounded, muAlignmentThreshold, confidenceThreshold) ==
  /\ \E amplitude \in {IF grounded
                        THEN projectToBalanceRay(superposition.amplitudes[i])
                        ELSE superposition.amplitudes[i]} :
       lastCall' = [op |-> "verify", amplitude |-> amplitude,
                    path |-> superposition.paths[i],
                    muAlignmentThreshold |-> muAlignmentThreshold,
                    confidenceThreshold |-> confidenceThreshold,
                    result |-> verify(amplitude, superposition.paths[i],
                                      muAlignmentThreshold, confidenceThreshold)]
  /\ UNCHANGED <<reasonerVars, learningVars, systemVars>>

\* A call of demonSelect on the caller's superposition and demon.
DemonSelect ==
  /\ lastCall' = [op |-> "demonSelect",
                  result |-> demonSelect(superposition, demon)]
  /\ UNCHANGED <<reasonerVars, learningVars, systemVars>>

\* A call of demonAtMeasurement on the caller's superposition and demon.
DemonAtMeasurement ==
  /\ lastCall' = [op |-> "demonAtMeasurement",
                  result |-> demonAtMeasurement(superposition, demon)]
  /\ UNCHANGED <<reasonerVars, learningVars, systemVars>>

\* reasoner = reasoningStep(reasoner, softCollapseStrength)
ReasoningStep(softCollapseStrength) ==
  \E after \in {reasoningStep(superposition, demon, softCollapseStrength)} :
    /\ superposition' = after.superposition
    /\ demon' = after.demon
    /\ lastCall' = [op |-> "reasoningStep",
                    softCollapseStrength |-> softCollapseStrength]
    /\ UNCHANGED <<learningVars, systemVars>>

InitReasoner ==
  \E paths \in PathSets : \E muBias \in DemonBiases : ReasonerInit(paths, muBias)

NextReasoner ==
  \/ Normalize
  \/ \E muWeight \in MuWeights : BornProbabilities(muWeight)
  \/ \E muWeight \in MuWeights : \E random \in RandomDraws :
       Collapse(muWeight, random)
  \/ \E random \in RandomDraws : PerformCollapse(random)
  \/ \E muWeight \in MuWeights : FinalCollapse(muWeight)
  \/ \E i \in 1..Len(superposition.paths) : \E grounded \in BOOLEAN :
       \E muAlignmentThreshold \in AlignmentThresholds :
         \E confidenceThreshold \in ConfidenceThresholds :
           Verify(i, grounded, muAlignmentThreshold, confidenceThreshold)
  \/ DemonSelect
  \/ DemonAtMeasurement
  \/ /\ demon.selectionsMade < MaxSelections
     /\ \E strength \in SoftCollapseStrengths : ReasoningStep(strength)

SpecReasoner == InitReasoner /\ [][NextReasoner]_vars

\* ------------------------------------------------------------------------
\* Specification of an observer: a caller holding a superposition creates
\* an observer and calls observe on the Observer values it holds.
\* ------------------------------------------------------------------------

\* Calls of observe explored from createObserver.
MaxObserves == 3

\* observe(observers[k], superposition, randomValue): the event is pushed
\* onto the history the observer refers to, and a new Observer value is
\* returned.
Observe(k, randomValue) ==
  \E event \in {measure(superposition, observers[k].config, randomValue)} :
    /\ events' = Append(events, event)
    /\ observers' = Append(observers, observe(observers[k], event).updatedObserver)
    /\ lastCall' = [op |-> "observe", observer |-> k, random |-> randomValue,
                    result |-> observe(observers[k], event)]
    /\ UNCHANGED <<reasonerVars, learningVars, cycleCount>>

\* A caller with a superposition and the observer createObserver returns.
InitObserver ==
  /\ LearningLayerInit(SCALE)
  /\ \E paths \in PathSets : superposition = createSuperposition(paths)
  /\ demon = Absent
  /\ observers = <<createObserver>>
  /\ events = <<>>
  /\ cycleCount = 0

NextObserver ==
  /\ Len(events) < MaxObserves
  /\ \E k \in 1..Len(observers) : \E randomValue \in RandomDraws :
       Observe(k, randomValue)

SpecObserver == InitObserver /\ [][NextObserver]_vars

\* ------------------------------------------------------------------------
\* CognitiveSystem (thermodynamic-demo.ts): the cycle, with its learning
\* layer, demon and observer.  The layers not modelled here (identity, DMN,
\* attention, workspace, episodic buffer) enter a cycle through the values
\* they hand to it: the reasoning paths, and the saliency, relevance,
\* modality, coherence, broadcast, identity growth and broadcast entropy of
\* the stimulus.
\* ------------------------------------------------------------------------

\* Cycles explored from construction, the first CycleWarmup of them on
\* fixed inputs.
MaxCycles == 21

CycleWarmup == 20

\* A wrong trigger: it tests the 0-based id, so it fires on cycles 11, 21, ...
learningTriggered_onId(cycleId) == cycleId % 10 = 0 /\ cycleId > 0

\* (cycleId + 1) % 10 === 0 && cycleId > 0
learningTriggered(cycleId) == (cycleId + 1) % 10 = 0 /\ cycleId > 0

\* LearningLayer.createAdaptedDemon
createAdaptedDemon(baseDemon, adaptation) ==
  [baseDemon EXCEPT !.muBias = adaptation.currentBias]

\* The experience phase 7 records: the target's content is the grounded
\* amplitude, the selection entropy passed is coherenceAchieved, the cycle
\* succeeded when the measurement verified and a broadcast occurred, and
\* entropyPaid adds the demon's informationCost.
cycleExperience(id, stimulus, event, demonAfter, demonBias) ==
  createExperience(id,
    [stimulus.target EXCEPT !.content = event.groundedAmplitude],
    demonBias, stimulus.outcome.coherence,
    [stimulus.outcome EXCEPT
       !.successful = event.verified /\ stimulus.outcome.broadcast,
       !.muAlignment = FAbs(FCos(FSub(argument(event.groundedAmplitude),
                                      argument(MU)))),
       !.entropyPaid = FAdd(@, demonAfter.informationCost)])

\* The rest of cycle once the demon has selected and the observer measured:
\* record the experience, and learn when the trigger fires.
cycleLearning(cycleId, experience, pushed) ==
  \E buffer \in {IF Len(pushed) > EXPERIENCE_BUFFER_SIZE
                  THEN Slice(pushed, -EXPERIENCE_BUFFER_SIZE) ELSE pushed} :
    /\ recordCount' = recordCount + 1
    /\ IF ~learningTriggered(cycleId)
       THEN /\ experiences' = buffer
            /\ lastCall' = [op |-> "cycle", cycleId |-> cycleId,
                            experience |-> experience,
                            learningTriggered |-> FALSE]
            /\ UNCHANGED <<valueFunction, biasAdaptation, predictionErrors,
                           learnCount>>
       ELSE IF tooFewExperiences(buffer)
       THEN /\ experiences' = buffer
            /\ learnCount' = learnCount + 1
            /\ lastCall' = [op |-> "cycle", cycleId |-> cycleId,
                            experience |-> experience,
                            learningTriggered |-> TRUE,
                            learningResult |->
                              [valueFunctionUpdated |-> FALSE,
                               biasUpdated |-> FALSE,
                               averageError |-> 0,
                               newBias |-> biasAdaptation.currentBias]]
            /\ UNCHANGED <<valueFunction, biasAdaptation, predictionErrors>>
       ELSE \E after \in {learn(buffer, valueFunction, biasAdaptation,
                                predictionErrors,
                                MIN_EXPERIENCES_FOR_LEARNING)} :
              /\ experiences' = after.experiences
              /\ valueFunction' = after.valueFunction
              /\ biasAdaptation' = after.biasAdaptation
              /\ predictionErrors' = after.predictionErrors
              /\ learnCount' = learnCount + 1
              /\ lastCall' = [op |-> "cycle", cycleId |-> cycleId,
                              experience |-> experience,
                              learningTriggered |-> TRUE,
                              learningResult |-> after.result]

\* CognitiveSystem.cycle: the demon, given the learning layer's bias,
\* reweights the normalized superposition of the cycle's paths; the
\* observer measures it with a draw of Math.random(); the experience is
\* recorded; learn(10) runs when the trigger fires.
Cycle(paths, random, stimulus) ==
  \E selected \in {demonSelect(normalize(createSuperposition(paths)),
                                createAdaptedDemon(demon, biasAdaptation))} :
    \E event \in {measure(selected.newSuperposition,
                           observers[Len(observers)].config, random)} :
      \E experience \in {cycleExperience(recordCount, stimulus, event,
                                         selected.updatedDemon,
                                         biasAdaptation.currentBias)} :
        /\ cycleCount' = cycleCount + 1
        /\ demon' = selected.updatedDemon
        /\ events' = Append(events, event)
        /\ observers' = Append(observers,
                            observe(observers[Len(observers)], event).updatedObserver)
        /\ cycleLearning(cycleCount, experience, Append(experiences, experience))
        /\ UNCHANGED <<superposition, resetAt>>

\* CognitiveSystem.resetDemon(bias)
ResetDemon(bias) ==
  /\ demon' = createDemon(bias)
  /\ lastCall' = [op |-> "resetDemon", bias |-> bias]
  /\ UNCHANGED <<superposition, learningVars, systemVars>>

\* new CognitiveSystem(seedZ, initialTemp, demonBias)
InitSystem ==
  /\ \E demonBias \in DemonBiases :
       /\ LearningLayerInit(demonBias)
       /\ demon = createDemon(demonBias)
  /\ superposition = Absent
  /\ observers = <<createObserver>>
  /\ events = <<>>
  /\ cycleCount = 0

\* The cycles of a system, with triggerLearning(10) and resetDemon calls
\* between them, which are explored from the last warm-up cycle on.
NextSystem ==
  \/ /\ cycleCount < MaxCycles
     /\ \E paths \in (IF cycleCount < CycleWarmup THEN {GroundedPaths}
                       ELSE {FourEqualPaths, GroundedPaths}) :
          \E random \in (IF cycleCount < CycleWarmup THEN {SCALE \div 4}
                          ELSE {0, SCALE - 1}) :
            \E stimulus \in StimuliAt(cycleCount, CycleWarmup) :
              Cycle(paths, random, stimulus)
  \/ /\ cycleCount >= CycleWarmup - 1
     /\ learnCount < MaxLearns
     /\ Learn(MIN_EXPERIENCES_FOR_LEARNING)
  \/ /\ cycleCount >= CycleWarmup - 1
     /\ demon.selectionsMade > 0
     /\ \E bias \in DemonBiases : ResetDemon(bias)

SpecSystem == InitSystem /\ [][NextSystem]_vars

\* ------------------------------------------------------------------------
\* Properties of the quantum and measurement layers
\* ------------------------------------------------------------------------

IsCollapseCall == lastCall.op \in {"collapse", "performCollapse"}

\* The probabilities the last collapse call sampled from.
SampledProbabilities ==
  IF lastCall.op = "collapse"
  THEN bornProbabilities(superposition, lastCall.muWeight)
  ELSE muGroundedBornRule(superposition, DEFAULT_BORN_CONFIG)

\* The positions (from 1) whose cumulative probability exceeds the draw.
Exceeding(probs, random) == {i \in 1..Len(probs) : Gt(SumTo(probs, i), random)}

AllNumbers(probs) == \A i \in 1..Len(probs) : ~isNaN(probs[i])

AllZero(amplitudes) ==
  \A i \in 1..Len(amplitudes) : magnitude(amplitudes[i]) = 0

SelectsFirstOf(exceeding, probs, result) ==
  exceeding # {} =>
    /\ result.selectedIndex + 1 \in exceeding
    /\ \A i \in exceeding : result.selectedIndex + 1 <= i
    /\ result.probability = probs[result.selectedIndex + 1]
    /\ result.selectedPath = superposition.paths[result.selectedIndex + 1]

InverseCdf(probs, random, result) ==
  SelectsFirstOf(Exceeding(probs, random), probs, result)

\* C4: collapse and performCollapse, given a draw in [0, 1), select the
\* smallest index whose cumulative probability exceeds the draw, and return
\* the probability and the path at that index.
C4_CollapseIsInverseCdf ==
  IsCollapseCall => InverseCdf(SampledProbabilities, lastCall.random, lastCall.result)

\* C4 witness: four equal probabilities of 0.25 collapsed with weight 0 and
\* draw 0.1 have selected index 0.
C4_Witness ==
  /\ lastCall.op = "collapse"
  /\ lastCall.muWeight = 0
  /\ lastCall.random = SCALE \div 10
  /\ superposition = createSuperposition(FourEqualPaths)
  /\ lastCall.result.selectedIndex = 0
  /\ lastCall.result.probability = SCALE \div 4

FallsShort(probs, random) == AllNumbers(probs) /\ Exceeding(probs, random) = {}

\* C5: when the walk ends without the cumulative sum of the probabilities
\* exceeding the draw, collapse and performCollapse select the last index.
C5_FallbackSelectsLast ==
  (IsCollapseCall /\ FallsShort(SampledProbabilities, lastCall.random))
    => lastCall.result.selectedIndex = Len(superposition.paths) - 1

UniformOver(n, random, result) ==
  /\ result.probability = RoundDiv(SCALE, n)
  /\ (result.selectedIndex + 1) * SCALE > random * n
  /\ result.selectedIndex * SCALE <= random * n

\* C6: when every amplitude is zero, collapse and performCollapse treat the
\* distribution as uniform: the returned probability is 1/n, not NaN, and
\* the index is the one the draw selects among n equal probabilities.
C6_ZeroMassIsUniform ==
  (IsCollapseCall /\ AllZero(superposition.amplitudes))
    => UniformOver(Len(superposition.paths), lastCall.random, lastCall.result)

\* The sum of n quotients rounded to the resolution is within n half-units
\* of the exact sum.
SumsToOne(probs) ==
  /\ ~isNaN(Sum(probs))
  /\ 2 * Abs(Sum(probs) - SCALE) <= Len(probs)

\* C7: for every superposition and every weight, zero or not,
\* bornProbabilities returns one non-negative entry per path, and the
\* entries sum to 1.
C7_BornProbabilitiesSumToOne ==
  lastCall.op = "bornProbabilities"
    => /\ Len(lastCall.result) = Len(superposition.paths)
       /\ \A i \in 1..Len(lastCall.result) : Ge(lastCall.result[i], 0)
       /\ SumsToOne(lastCall.result)

\* The mass of a normalized superposition, each squared magnitude being
\* computed to the resolution: within MassTolerance units of 1.
MassTolerance(n) == 3 * n

SamePaths(before, after) ==
  /\ Len(after) = Len(before)
  /\ \A i \in 1..Len(before) :
       /\ after[i].id = before[i].id
       /\ after[i].type = before[i].type
       /\ after[i].confidence = before[i].confidence

Normalized(before, after) ==
  IF before.totalProbability = 0 THEN after = before
  ELSE /\ Abs(after.totalProbability - SCALE) <= MassTolerance(Len(before.paths))
       /\ SamePaths(before.paths, after.paths)
       /\ Len(after.amplitudes) = Len(before.amplitudes)

\* C8: normalize returns a superposition of total probability mass 1 with
\* the same paths in the same order when some amplitude is not zero, and its
\* input unchanged when the mass is 0.
C8_NormalizeGivesUnitMass ==
  lastCall.op = "normalize" => Normalized(lastCall.sup, superposition)

\* C8 witness: three paths of amplitude 1, of mass 3, have been normalized.
C8_Witness ==
  /\ lastCall.op = "normalize"
  /\ lastCall.sup = createSuperposition(ThreeEqualPaths)
  /\ superposition.totalProbability < 2 * SCALE

\* The cost charged from one demon state to the next is 1.1 times the size
\* of the entropy reduction added (to half a unit of resolution), is not
\* negative, and the cumulative cost covers 1.1 times the size of the
\* cumulative reduction (to half a unit per selection).
ChargedFor(before, after) ==
  /\ Abs(10 * (after.informationCost - before.informationCost)
         - 11 * Abs(after.entropyReduced - before.entropyReduced)) <= 5
  /\ after.informationCost >= before.informationCost
  /\ 10 * after.informationCost + 5 * after.selectionsMade
       >= 11 * Abs(after.entropyReduced)

MeasuredCost(before, measurement) ==
  /\ ChargedFor(before, measurement.demon)
  /\ measurement.informationCost >= 0
  /\ Abs(10 * measurement.informationCost
         - 11 * Abs(measurement.entropyReduction)) <= 5

\* C9: every reweighting (in a reasoning step, in demonSelect and in
\* demonAtMeasurement) charges 1.1 x |entropy reduction| >= 0, so that the
\* demon's cumulative informationCost never decreases and is at least
\* 1.1 x |cumulative entropyReduced|.
C9_InformationCostCoversReduction ==
  [][/\ demon' # demon => ChargedFor(demon, demon')
     /\ (lastCall' # lastCall /\ lastCall'.op = "demonSelect")
          => ChargedFor(demon, lastCall'.result.updatedDemon)
     /\ (lastCall' # lastCall /\ lastCall'.op = "demonAtMeasurement")
          => MeasuredCost(demon, lastCall'.result.measurement)]_vars

\* C9 witness: two reasoning steps have been made, the entropy has risen
\* over them and a cost has been charged.
C9_Witness ==
  /\ lastCall.op = "reasoningStep"
  /\ demon.selectionsMade = 2
  /\ demon.entropyReduced < 0
  /\ demon.informationCost > 0

\* C10: demonSelect returns a demon with one more selection, the same
\* muBias and a cumulative entropyReduced to which the reduction of the
\* call, old entropy minus new entropy, negative or not, has been added;
\* the superposition and the demon passed to it are as before the call.
C10_DemonSelectReturnsNewDemon ==
  [][(lastCall' # lastCall /\ lastCall'.op = "demonSelect")
       => /\ lastCall'.result.updatedDemon.selectionsMade = demon.selectionsMade + 1
          /\ lastCall'.result.updatedDemon.muBias = demon.muBias
          /\ lastCall'.result.updatedDemon.entropyReduced
               = demon.entropyReduced
                 + (entropyOf(superposition)
                    - entropyOf(lastCall'.result.newSuperposition))
          /\ superposition' = superposition
          /\ demon' = demon]_vars

\* C10 witness: demonSelect has been called after an earlier selection and
\* has added a negative reduction.
C10_Witness ==
  /\ lastCall.op = "demonSelect"
  /\ demon.selectionsMade >= 1
  /\ lastCall.result.updatedDemon.entropyReduced < demon.entropyReduced
  /\ lastCall.result.updatedDemon.selectionsMade = demon.selectionsMade + 1

\* ------------------------------------------------------------------------
\* Determinism of collapse
\* ------------------------------------------------------------------------

CollapseOps == {"collapse", "performCollapse", "finalCollapse"}

\* What the caller passed: every recorded field of a call but its result.
\* (The superposition is the caller's, which no collapse call changes.)
Arguments(call) == [f \in DOMAIN call \ {"result"} |-> call[f]]

SameArguments(first, second) ==
  /\ first.op \in CollapseOps
  /\ second.op \in CollapseOps
  /\ Arguments(first) = Arguments(second)

\* C11: two successive collapse calls on the same superposition with the
\* same arguments return the same result in every field; nothing but the
\* arguments influences the outcome.
C11_CollapseIsDeterministic ==
  [][(SameArguments(lastCall, lastCall') /\ superposition' = superposition)
       => lastCall'.result = lastCall.result]_vars

\* ------------------------------------------------------------------------
\* Grounding
\* ------------------------------------------------------------------------

\* The amplitude a collapse call selected and its projection onto the ray.
SelectedAmplitude ==
  IF lastCall.op = "collapse"
  THEN superposition.amplitudes[lastCall.result.selectedIndex + 1]
  ELSE lastCall.result.rawAmplitude

ProjectedAmplitude ==
  IF lastCall.op = "collapse"
  THEN lastCall.result.projectedAmplitude
  ELSE lastCall.result.groundedAmplitude

\* z = k mu for a real k: mu = (-eta, eta), so the parts are opposite.
IsMultipleOfMu(z) == ~isNaN(z.re) /\ ~isNaN(z.im) /\ z.re = -z.im

\* Equal to the resolution of the arithmetic: each part within 0.002.
SameAmplitude(a, b) == Abs(a.re - b.re) <= 2 /\ Abs(a.im - b.im) <= 2

\* C12: when the amplitude a collapse selects is already k mu, the grounded
\* amplitude the call returns is the same amplitude, projecting it again
\* changes nothing, and the grounding cost performCollapse reports is 0.
C12_GroundingIsIdempotent ==
  (IsCollapseCall /\ IsMultipleOfMu(SelectedAmplitude)) =>
     /\ SameAmplitude(ProjectedAmplitude, SelectedAmplitude)
     /\ SameAmplitude(projectToBalanceRay(ProjectedAmplitude), ProjectedAmplitude)
     /\ lastCall.op = "performCollapse" => lastCall.result.groundingCost = 0

\* C12 witness: performCollapse selected an amplitude k mu with k < 0.
C12_Witness ==
  /\ lastCall.op = "performCollapse"
  /\ IsMultipleOfMu(SelectedAmplitude)
  /\ SelectedAmplitude.re > 0
  /\ lastCall.result.groundingCost = 0

\* ------------------------------------------------------------------------
\* Verification
\* ------------------------------------------------------------------------

\* C13: verify returns passed = TRUE exactly when the alignment score it
\* reports is at or above the alignment threshold and the path's confidence
\* is at or above the confidence threshold; calls that agree on these two
\* checks agree on passed whatever their on-ray flag and energy level.
C13_VerifyPassesOnAlignmentAndConfidence ==
  lastCall.op = "verify" =>
    /\ lastCall.result.passed \in BOOLEAN
    /\ lastCall.result.passed <=>
         (/\ Ge(lastCall.result.muAlignment, lastCall.muAlignmentThreshold)
          /\ Ge(lastCall.path.confidence, lastCall.confidenceThreshold))

\* C13 witness: a verify call passed on an amplitude off the balance ray
\* whose energy is not low.
C13_Witness ==
  /\ lastCall.op = "verify"
  /\ lastCall.result.passed
  /\ ~lastCall.result.onBalanceRay
  /\ Ge(lastCall.result.energyLevel, SCALE \div 2)

\* ------------------------------------------------------------------------
\* Credit assignment
\* ------------------------------------------------------------------------

\* 0.9^k at a resolution of 0.000001.
RECURSIVE DecayPower(_)
DecayPower(k) ==
  IF k = 0 THEN SCALE * SCALE ELSE (DecayPower(k - 1) * CREDIT_DECAY) \div SCALE

\* assignments is the decaying credit chain of the experiences recent for
\* the terminal value v: one assignment per experience in the same order,
\* eligibility 1.0 for the last and 0.9 times the successor's for each
\* earlier one (so 0.9^(N - i) for the i-th of N, to the rounding of the
\* products), and decayedCredit = v x eligibility.
IsCreditChain(assignments, recent, v) ==
  /\ Len(assignments) = Len(recent)
  /\ assignments[Len(recent)].eligibilityTrace = SCALE
  /\ \A i \in 1..Len(recent) :
       /\ assignments[i].experienceId = recent[i].id
       /\ assignments[i].credit = recent[i].valueGained
       /\ assignments[i].decayedCredit = FMul(v, assignments[i].eligibilityTrace)
       /\ i < Len(recent) =>
            assignments[i].eligibilityTrace =
              FMul(assignments[i + 1].eligibilityTrace, CREDIT_DECAY)
       /\ Abs(assignments[i].eligibilityTrace * SCALE - DecayPower(Len(recent) - i))
            <= (SCALE \div 2) * (Len(recent) - i)

\* The replay window of the learn call that a step makes.
WindowOfStep == recentExperiences(experiences, lastCall'.batchSize)

\* C14: the credit assignment every learn call computes over its N replayed
\* experiences, with the value of the last as terminal value v, is the
\* decaying chain: eligibility 1.0 for the most recent, 0.9 times the
\* successor's for each earlier one, decayedCredit_i = v x 0.9^(N-1-i), one
\* assignment per experience in order.
C14_AssignCreditDecaysBackward ==
  [][(learnCount' = learnCount + 1 /\ ~tooFewExperiences(experiences))
       => \E recent \in {WindowOfStep} :
            \E v \in {recent[Len(recent)].valueGained} :
              \E assignments \in {assignCredit(recent, v)} :
                IsCreditChain(assignments, recent, v)]_vars

\* C14 witness: learn has run with a positive terminal value and the last
\* three experiences carry that value times 1, 0.9 and 0.81.
C14_Witness ==
  /\ lastCall.op = "learn"
  /\ lastCall.result.valueFunctionUpdated
  /\ LET n == Len(experiences)
         v == experiences[n].valueGained
     IN /\ Gt(v, 0)
        /\ experiences[n].creditAssigned = v
        /\ experiences[n - 1].creditAssigned = FMul(v, CREDIT_DECAY)
        /\ experiences[n - 2].creditAssigned = FMul(v, FMul(CREDIT_DECAY, CREDIT_DECAY))

\* ------------------------------------------------------------------------
\* Value function
\* ------------------------------------------------------------------------

\* x is a number of [0, 1].
InUnitInterval(x) == ~isNaN(x) /\ 0 <= x /\ x <= SCALE

\* C15: every scalar feature weight, the bias term and each of the 8
\* per-category weights of the value function is a number in [0, 1], after
\* any sequence of learn calls.
C15_WeightsInUnitInterval ==
  /\ InUnitInterval(valueFunction.saliencyWeight)
  /\ InUnitInterval(valueFunction.relevanceWeight)
  /\ InUnitInterval(valueFunction.muAlignmentWeight)
  /\ InUnitInterval(valueFunction.magnitudeWeight)
  /\ InUnitInterval(valueFunction.bias)
  /\ DOMAIN valueFunction.modalityWeights = MODALITY_NAMES
  /\ \A m \in MODALITY_NAMES : InUnitInterval(valueFunction.modalityWeights[m])

\* The prediction error of the experience, or one of the features the
\* update reads from its target, is NaN.
IsNaNStep(experience, valueFunc) ==
  \/ isNaN(computePredictionError(experience, valueFunc).error)
  \/ isNaN(experience.attentionTarget.saliency)
  \/ isNaN(experience.attentionTarget.relevance)
  \/ isNaN(muAlignment(experience.attentionTarget.content))
  \/ isNaN(magnitude(experience.attentionTarget.content))

SameWeights(before, after) ==
  /\ after.saliencyWeight = before.saliencyWeight
  /\ after.relevanceWeight = before.relevanceWeight
  /\ after.muAlignmentWeight = before.muAlignmentWeight
  /\ after.magnitudeWeight = before.magnitudeWeight
  /\ after.bias = before.bias
  /\ after.modalityWeights = before.modalityWeights

NoNaNStored(valueFunc) ==
  /\ ~isNaN(valueFunc.saliencyWeight)
  /\ ~isNaN(valueFunc.relevanceWeight)
  /\ ~isNaN(valueFunc.muAlignmentWeight)
  /\ ~isNaN(valueFunc.magnitudeWeight)
  /\ ~isNaN(valueFunc.bias)
  /\ ~isNaN(valueFunc.averageError)
  /\ \A m \in MODALITY_NAMES : ~isNaN(valueFunc.modalityWeights[m])

\* C16: when learn replays a single experience whose prediction error or
\* feature is NaN, the value-function update of that step changes no
\* weight (scalar weights, bias term, category weights) and stores no NaN.
C16_NaNStepChangesNoWeight ==
  [][(/\ learnCount' = learnCount + 1
      /\ ~tooFewExperiences(experiences)
      /\ lastCall'.batchSize = 1
      /\ IsNaNStep(experiences[Len(experiences)], valueFunction))
       => /\ SameWeights(valueFunction, valueFunction')
          /\ NoNaNStored(valueFunction')]_vars

\* C17: every value predictValue returned to learn (the expected value of
\* each recorded prediction error, predicted for the replayed experience's
\* target from the value function of that moment) is a number in [0, 1].
C17_PredictionsInUnitInterval ==
  \A i \in 1..Len(predictionErrors) :
    InUnitInterval(predictionErrors[i].expectedValue)

\* ------------------------------------------------------------------------
\* Bias adaptation
\* ------------------------------------------------------------------------

\* The success rate of a group of experiences, or the previous rate when
\* the group is empty.
SuccessRateOver(group, previous) ==
  IF Len(group) > 0
  THEN RoundDiv(Len(SelectSeq(group, succeeded)) * SCALE, Len(group))
  ELSE previous

\* The average value of a group of experiences, 0.5 when it is empty.
AverageValueOver(group) ==
  IF Len(group) > 0 THEN FDivInt(SumValueTo(group, Len(group)), Len(group))
  ELSE SCALE \div 2

\* clamp(currentBias + (alignedAvgValue - nonAlignedAvgValue), 0.1, 2.0) for
\* the experiences exps split at alignment 0.7.
OptimalBiasOver(exps, currentBias) ==
  MathMax(BIAS_MIN, MathMin(BIAS_MAX,
    FAdd(currentBias,
         FSub(AverageValueOver(SelectSeq(exps, isMuAligned)),
              AverageValueOver(SelectSeq(exps, isNotMuAligned))))))

\* The bias statistics after the step are those of the experiences exps.
StatisticsOver(exps) ==
  /\ biasAdaptation'.muSuccessRate =
       SuccessRateOver(SelectSeq(exps, isMuAligned), biasAdaptation.muSuccessRate)
  /\ biasAdaptation'.nonMuSuccessRate =
       SuccessRateOver(SelectSeq(exps, isNotMuAligned),
                       biasAdaptation.nonMuSuccessRate)
  /\ biasAdaptation'.optimalBias =
       OptimalBiasOver(exps, biasAdaptation.currentBias)

\* C18: the success rates and average values a learn(batchSize) call adapts
\* the bias with are those of its replay window, the batchSize most recent
\* experiences, split into aligned (alignment above 0.7) and non-aligned.
C18_BiasStatisticsOverWindow ==
  [][(learnCount' = learnCount + 1 /\ ~tooFewExperiences(experiences))
       => StatisticsOver(WindowOfStep)]_vars

\* new lies between old and optimal and, unless old is optimal already, has
\* not reached it.
MovesToward(old, new, optimal) ==
  /\ ~isNaN(new)
  /\ ~isNaN(optimal)
  /\ Min(old, optimal) <= new
  /\ new <= Max(old, optimal)
  /\ optimal # old => new # optimal

\* C19: every bias adaptation sets optimalBias to
\* clamp(currentBias + (alignedAvgValue - nonAlignedAvgValue), 0.1, 2.0),
\* the averages being those of the experiences the adaptation reads, and
\* currentBias to currentBias + adaptationRate x (optimalBias - currentBias),
\* which lies between the old bias and optimalBias and does not reach it.
C19_BiasMovesTowardOptimal ==
  [][(learnCount' = learnCount + 1 /\ ~tooFewExperiences(experiences))
       => /\ biasAdaptation'.optimalBias =
               OptimalBiasOver(experiences, biasAdaptation.currentBias)
          /\ biasAdaptation'.currentBias =
               FAdd(biasAdaptation.currentBias,
                    FMul(biasAdaptation.adaptationRate,
                         FSub(biasAdaptation'.optimalBias,
                              biasAdaptation.currentBias)))
          /\ MovesToward(biasAdaptation.currentBias,
                         biasAdaptation'.currentBias,
                         biasAdaptation'.optimalBias)]_vars

\* Every aligned experience of exps succeeded and every non-aligned one
\* failed, both groups are non-empty, and the outcomes are otherwise equal.
IsSeparated(exps) ==
  /\ Len(SelectSeq(exps, isMuAligned)) > 0
  /\ Len(SelectSeq(exps, isNotMuAligned)) > 0
  /\ \A i \in 1..Len(exps) : isMuAligned(exps[i]) <=> exps[i].cycleSuccessful
  /\ \A i \in 1..Len(exps) :
       /\ exps[i].coherenceAchieved = exps[1].coherenceAchieved
       /\ exps[i].identityGrowth = exps[1].identityGrowth
       /\ exps[i].entropyPaid = exps[1].entropyPaid
       /\ exps[i].broadcastOccurred = exps[1].broadcastOccurred

\* The step is a learn pass that sets muSuccessRate to 1 and
\* nonMuSuccessRate to 0 and raises currentBias.
RaisesBias ==
  /\ lastCall'.result.valueFunctionUpdated
  /\ biasAdaptation'.muSuccessRate = SCALE
  /\ biasAdaptation'.nonMuSuccessRate = 0
  /\ Gt(biasAdaptation'.currentBias, biasAdaptation.currentBias)

IsSinglePath == Len(superposition.paths) = 1

\* C21: a superposition of exactly one path has coherence 1, and collapse
\* selects index 0 with probability 1 on it, for every draw and every
\* weight.
C21_SinglePathCollapsesToItself ==
  IsSinglePath =>
    /\ superposition.coherence = SCALE
    /\ lastCall.op = "collapse" =>
         /\ lastCall.result.selectedIndex = 0
         /\ lastCall.result.probability = SCALE

\* ------------------------------------------------------------------------
\* The measurement history and the observer
\* ------------------------------------------------------------------------

\* A limit below the number of measurements recorded in the runs explored.
HistoryLimit == MaxObserves - 1

\* C22: the history of measurement events is bounded: whatever the number
\* of observe calls, the events it retains never exceed a fixed limit.
C22_HistoryIsBounded == Len(events) <= HistoryLimit

\* C29: for every Observer value made by createObserver or returned by
\* observe, at every point of a sequence of observe calls, measurementCount
\* is the number of events in the history the value refers to.
C29_CountMatchesHistory ==
  \A k \in 1..Len(observers) : observers[k].measurementCount = Len(events)

\* ------------------------------------------------------------------------
\* The on-ray check
\* ------------------------------------------------------------------------

\* C23: the on-ray check verify reports is true exactly for the points of
\* the line through the origin at 135 / 315 degrees, the real multiples of
\* mu, and false for every other point.
C23_OnRayExactlyForMultiplesOfMu ==
  lastCall.op = "verify" =>
    (lastCall.result.onBalanceRay <=> IsMultipleOfMu(lastCall.amplitude))

\* ------------------------------------------------------------------------
\* The category feature of predictValue
\* ------------------------------------------------------------------------

\* C24: the value predictValue returns to learn for a replayed experience
\* is the weighted combination whose category feature is the weight the
\* value function stores for the target's category, for every stored weight
\* in [0, 1].
C24_PredictValueUsesStoredWeight ==
  [][(/\ learnCount' = learnCount + 1
      /\ ~tooFewExperiences(experiences)
      /\ lastCall'.batchSize = 1
      /\ InUnitInterval(valueFunction.modalityWeights[
                          experiences[Len(experiences)].attentionTarget.modality]))
       => predictionErrors'[Len(predictionErrors')].expectedValue =
            predictValueWith(
              experiences[Len(experiences)].attentionTarget, valueFunction,
              valueFunction.modalityWeights[
                experiences[Len(experiences)].attentionTarget.modality])]_vars

\* ------------------------------------------------------------------------
\* Reset of the learning layer
\* ------------------------------------------------------------------------

\* The recordExperience calls made since the last reset (since construction
\* when there was none).
RecordedSinceReset == recordCount - resetAt

IsNoOpLearn ==
  /\ ~lastCall'.result.valueFunctionUpdated
  /\ ~lastCall'.result.biasUpdated
  /\ UNCHANGED <<experiences, valueFunction, biasAdaptation, predictionErrors>>

\* C25: reset empties the experience buffer and the prediction-error
\* history and leaves the value function and the bias adaptation as they
\* were; a learn call made before 10 experiences have been recorded since
\* the reset is the insufficient-data no-op, and one made from the 10th on
\* is a learning pass.
C25_ResetKeepsWhatWasLearned ==
  [][/\ lastCall'.op = "reset" =>
          /\ experiences' = <<>>
          /\ predictionErrors' = <<>>
          /\ valueFunction' = valueFunction
          /\ biasAdaptation' = biasAdaptation
     /\ (learnCount' = learnCount + 1 /\ RecordedSinceReset < MIN_EXPERIENCES_FOR_LEARNING)
          => IsNoOpLearn
     /\ (learnCount' = learnCount + 1 /\ RecordedSinceReset >= MIN_EXPERIENCES_FOR_LEARNING)
          => lastCall'.result.valueFunctionUpdated]_vars

\* C25 witness: a layer that learned before it was reset keeps its updated
\* value function, and a learn call after one new recording did nothing.
C25_Witness ==
  /\ lastCall.op = "learn"
  /\ ~lastCall.result.valueFunctionUpdated
  /\ resetAt >= MIN_EXPERIENCES_FOR_LEARNING
  /\ RecordedSinceReset = 1
  /\ Len(experiences) = 1
  /\ valueFunction.updateCount = MIN_EXPERIENCES_FOR_LEARNING
  /\ valueFunction # createValueFunction

\* ------------------------------------------------------------------------
\* The learning schedule of CognitiveSystem
\* ------------------------------------------------------------------------

IsCycleStep == cycleCount' = cycleCount + 1

\* C26: every cycle records exactly one experience; learn is invoked on a
\* cycle exactly when the cycle's 1-based count is a multiple of 10; at each
\* such invocation at least 10 experiences are buffered and the pass
\* updates; and the demon of every cycle carries the bias the learning layer
\* holds, which after a pass is the bias the pass produced.
C26_LearningEveryTenthCycle ==
  [][IsCycleStep =>
       /\ recordCount' = recordCount + 1
       /\ Len(experiences') = Min(Len(experiences) + 1, EXPERIENCE_BUFFER_SIZE)
       /\ experiences'[Len(experiences')].id = lastCall'.experience.id
       /\ lastCall'.learningTriggered <=> (cycleCount' % 10 = 0)
       /\ learnCount' = learnCount + (IF cycleCount' % 10 = 0 THEN 1 ELSE 0)
       /\ lastCall'.learningTriggered =>
            /\ Len(experiences') >= MIN_EXPERIENCES_FOR_LEARNING
            /\ lastCall'.learningResult.valueFunctionUpdated
            /\ lastCall'.learningResult.newBias = biasAdaptation'.currentBias
       /\ demon'.muBias = biasAdaptation.currentBias
       /\ lastCall'.experience.demonBias = biasAdaptation.currentBias]_vars

\* C26 witness: the 20th cycle has run its learning pass on a system whose
\* demon had been reset just before; the demon of that cycle carried the
\* bias the pass of the 10th cycle had produced, neither the constructor's
\* nor resetDemon's.
C26_Witness ==
  /\ lastCall.op = "cycle"
  /\ cycleCount = 20
  /\ lastCall.learningTriggered
  /\ lastCall.learningResult.valueFunctionUpdated
  /\ lastCall.learningResult.biasUpdated
  /\ valueFunction.updateCount >= 20
  /\ demon.selectionsMade = 1
  /\ demon.muBias \notin DemonBiases

\* ------------------------------------------------------------------------
\* The replay window of learn
\* ------------------------------------------------------------------------

\* The prediction errors the step appended are those of the n most recent
\* experiences of the buffer, oldest first.
ReplayedLast(n) ==
  /\ Len(predictionErrors') = Len(predictionErrors) + n
  /\ \A j \in 1..n :
       predictionErrors'[Len(predictionErrors) + j].experienceId =
         experiences[Len(experiences) - n + j].id

\* C27: with at least 10 experiences buffered, learn(batchSize) replays
\* exactly the min(batchSize, buffer length) most recent experiences, in
\* chronological order, and raises updateCount by that number, for every
\* batchSize >= 0.
C27_LearnReplaysBatchSizeMostRecent ==
  [][(learnCount' = learnCount + 1 /\ ~tooFewExperiences(experiences)) =>
       /\ ReplayedLast(Min(lastCall'.batchSize, Len(experiences)))
       /\ valueFunction'.updateCount =
            valueFunction.updateCount + Min(lastCall'.batchSize, Len(experiences))]_vars

\* ------------------------------------------------------------------------
\* The credit learn stores
\* ------------------------------------------------------------------------

\* Entry j of the window carries the decayed credit assigned to it, and
\* every entry before the window its previous credit.
CreditStored(recent, assignments) ==
  /\ Len(experiences') = Len(experiences)
  /\ \A j \in 1..Len(recent) :
       experiences'[Len(experiences) - Len(recent) + j].creditAssigned =
         assignments[j].decayedCredit
  /\ \A i \in 1..(Len(experiences) - Len(recent)) :
       experiences'[i].creditAssigned = experiences[i].creditAssigned

\* C28: after a learn pass, every experience of the replay window has
\* creditAssigned equal to the decayed credit computed for it in that pass,
\* also when that credit is 0, and every experience outside the window
\* keeps its previous creditAssigned.
C28_WindowCarriesDecayedCredit ==
  [][(learnCount' = learnCount + 1 /\ ~tooFewExperiences(experiences))
       => \E recent \in {WindowOfStep} :
            \E assignments \in {assignCredit(recent, recent[Len(recent)].valueGained)} :
              CreditStored(recent, assignments)]_vars

\* ------------------------------------------------------------------------
\* Paths of probability zero
\* ------------------------------------------------------------------------

\* C30: for a draw in [0, 1) and a superposition with at least one non-zero
\* amplitude, collapse and performCollapse never select a path whose
\* probability under the distribution they sampled from is 0.
C30_NeverSelectsZeroProbability ==
  (IsCollapseCall /\ ~AllZero(superposition.amplitudes)) =>
    SampledProbabilities[lastCall.result.selectedIndex + 1] # 0

======================================================================
